---- MODULE Spec2Model ----
(***************************************************************************)
(* Ocean data tools: mask generation, mask application and training-pair  *)
(* construction over small in-memory tables (arrays of row objects).      *)
(*                                                                         *)
(* A JavaScript value is a tagged record; a row object is a function from  *)
(* its own keys to values; an array is a sequence.  JS indices are 0-based *)
(* and are kept 0-based wherever the program stores them (index,           *)
(* maskIndex); sequences are 1-based, so row i of the program is           *)
(* rows[i + 1] here.  Ratios are exact: a ratio in the program's output is *)
(* kept in ten-thousandths, the precision toFixed(4) leaves.               *)
(***************************************************************************)
EXTENDS Integers, Sequences, FiniteSets, TLC

VARIABLES
    data,      \* parsed content of the data file (parseDataFile's result)
    masks,     \* parsed content of the mask file (JSON.parse's result)
    params,    \* the parameters the operation was called with
    result,    \* what the operation returned, or that it threw
    outputFile,\* the file at the output path: not written, or its content
    pc         \* "ready" before the call, "done" after it

vars == <<data, masks, params, result, outputFile, pc>>

----------------------------------------------------------------------------
(* Bounds of the model *)

MaxRows == 2          \* rows in a data table
MaxMasks == 2         \* entries of cloudMasks in a mask document
MaxMaskCount == 2     \* largest mask_count a caller supplies

----------------------------------------------------------------------------
(* JavaScript values *)

Null == [t |-> "null"]
Undef == [t |-> "undef"]
NaN == [t |-> "nan"]
Num(n) == [t |-> "num", v |-> n]
Str(s) == [t |-> "str", v |-> s]

\* row[key]: a key the object does not own reads as undefined
Get(row, key) == IF key \in DOMAIN row THEN row[key] ELSE Undef

\* val === null || val === undefined || val === '' || (typeof val === 'number' && isNaN(val))
isMissing(val) ==
    val = Null \/ val = Undef \/ val = Str("") \/ val = NaN

----------------------------------------------------------------------------
(* Input domains *)

\* The values each column of an input table may hold; "absent" is a key the
\* row object does not own.  ObservedDomain is a table of observations with
\* gaps (the input of mask generation), GroundTruthDomain a table that masks
\* are applied to.
Absent == [t |-> "absent"]

ObservedDomain ==
    [ sst |-> {Absent, Null, Num(1)},
      chl |-> {NaN, Num(1)},
      ice |-> {Str(""), Num(1)} ]

GroundTruthDomain ==
    [ sst |-> {Absent, Null, Num(1), Num(2)},
      ice |-> {Undef, Num(1)} ]

AllFields == {"sst", "chl", "ice"}

RowsOver(dom) ==
    UNION { { r \in [S -> UNION {dom[f] : f \in DOMAIN dom}] :
                \A f \in S : r[f] \in dom[f] /\ r[f] # Absent } :
            S \in { S \in SUBSET DOMAIN dom : \A f \in (DOMAIN dom) \ S : Absent \in dom[f] } }

TablesOver(dom) == UNION { [1..n -> RowsOver(dom)] : n \in 0..MaxRows }

\* What parseDataFile hands to the operation: an array of rows, or (a JSON
\* object, JSON null, the placeholder object of a binary file) not an array.
Array(rows) == [kind |-> "array", rows |-> rows]
NotArray(kind) == [kind |-> kind, rows |-> <<>>]
Malformed == {NotArray("object"), NotArray("null"), NotArray("placeholder")}

GenTables == { Array(t) : t \in TablesOver(ObservedDomain) }

\* mask_params of a generate_masks call: each of missing_ratio_range and
\* mask_count is supplied or not; range bounds are in ten-thousandths.
Ranges == { <<0, 10000>>, <<5000, 5000>>, <<0, 3333>> }

MaskParams ==
    [ hasRange : {TRUE}, range : Ranges, hasCount : {TRUE}, count : 0..MaxMaskCount ]
    \cup [ hasRange : {FALSE}, range : {<<0, 0>>}, hasCount : {TRUE}, count : 0..MaxMaskCount ]
    \cup [ hasRange : {TRUE}, range : Ranges, hasCount : {FALSE}, count : {0} ]
    \cup [ hasRange : {FALSE}, range : {<<0, 0>>}, hasCount : {FALSE}, count : {0} ]

NoMaskParams == [ hasRange |-> FALSE, range |-> <<0, 0>>, hasCount |-> FALSE, count |-> 0 ]

\* The parameters of a call: mask_params, and whether output_path is supplied.
Params(mask_params, output_path) ==
    [ mask_params |-> mask_params, output_path |-> output_path ]
NoParams == Params(NoMaskParams, FALSE)

\* The file at the output path.  JSON.stringify drops a member whose value is
\* undefined and writes NaN as null.
NoFile == [ written |-> FALSE, content |-> <<>> ]
File(content) == [ written |-> TRUE, content |-> content ]

stringifyRow(row) ==
    [ key \in { k \in DOMAIN row : row[k] # Undef } |->
        IF row[key] = NaN THEN Null ELSE row[key] ]
stringifyRows(rows) == [ i \in 1..Len(rows) |-> stringifyRow(rows[i]) ]

----------------------------------------------------------------------------
(* Mask documents *)

NoMap == [ f \in {} |-> TRUE ]

\* { landMask?, cloudMasks? }: a member the object does not own has its
\* has-flag FALSE; kind "null" is the JSON value null.
MaskSet(hasLand, landMask, hasCloud, cloudMasks) ==
    [ kind |-> "object", hasLand |-> hasLand, landMask |-> landMask,
      hasCloud |-> hasCloud, cloudMasks |-> cloudMasks ]

EmptyMaskSet == MaskSet(FALSE, NoMap, FALSE, <<>>)
NullDoc == [ kind |-> "null", hasLand |-> FALSE, landMask |-> NoMap,
             hasCloud |-> FALSE, cloudMasks |-> <<>> ]

\* { index, missingRatio, mask? }
CloudMask(index, missingRatio, mask) ==
    [ kind |-> "object", index |-> index, missingRatio |-> missingRatio,
      hasMask |-> TRUE, mask |-> mask ]
NoMaskEntry(index, missingRatio) ==
    [ kind |-> "object", index |-> index, missingRatio |-> missingRatio,
      hasMask |-> FALSE, mask |-> NoMap ]
NullEntry ==
    [ kind |-> "null", index |-> 0, missingRatio |-> 0, hasMask |-> FALSE, mask |-> NoMap ]

Warning(msg, args) == [ msg |-> msg, args |-> args ]

----------------------------------------------------------------------------
(* generateMasks *)

DefaultRange == <<1000, 6000>>
DefaultMaskCount == 360

\* Number(x.toFixed(4)) of x = count / total, in ten-thousandths
toFixed4(count, total) == (2 * 10000 * count + total) \div (2 * total)

\* params?.missing_ratio_range || [0.1, 0.6]: an array is always truthy
missingRatioRangeOf(p) == IF p.hasRange THEN p.range ELSE DefaultRange

\* params?.mask_count || 360: 0 is falsy
maskCountOf(p) == IF p.hasCount /\ p.count # 0 THEN p.count ELSE DefaultMaskCount

\* data.every(row => isMissing(row[key])) for each key of the first row
landMaskOf(rows, keys) ==
    [ key \in keys |-> \A i \in 1..Len(rows) : isMissing(Get(rows[i], key)) ]

seaKeysOf_AllKeys(keys, landMask) == keys

\* keys.filter(key => !landMask[key])
seaKeysOf(keys, landMask) == { key \in keys : ~landMask[key] }

\* missingRatio >= missingRatioRange[0] && missingRatio <= missingRatioRange[1]
inRange(missingCount, total, range) ==
    /\ 10000 * missingCount >= range[1] * total
    /\ 10000 * missingCount <= range[2] * total

\* for (let i = 0; i < data.length && cloudMasks.length < maskCount; i++)
RECURSIVE cloudLoop(_, _, _, _, _, _, _)
cloudLoop(rows, keys, seaKeys, range, maskCount, i, cloudMasks) ==
    IF ~(i < Len(rows) /\ Len(cloudMasks) < maskCount)
    THEN cloudMasks
    ELSE LET row == rows[i + 1]
             missingCount == Cardinality({ key \in seaKeys : isMissing(Get(row, key)) })
             total == Cardinality(seaKeys)
             mask == [ key \in keys |-> isMissing(Get(row, key)) ]
         IN  cloudLoop(rows, keys, seaKeys, range, maskCount, i + 1,
                 IF inRange(missingCount, total, range)
                 THEN Append(cloudMasks, CloudMask(i, toFixed4(missingCount, total), mask))
                 ELSE cloudMasks)

\* The result of generateMasks(data, params), or threw = TRUE when the call
\* raises a TypeError.
Returned(masksOut, report, warnings) ==
    [ threw |-> FALSE, masks |-> masksOut, report |-> report, warnings |-> warnings ]
Threw ==
    [ threw |-> TRUE, masks |-> EmptyMaskSet, report |-> <<>>, warnings |-> <<>> ]

generateMasks(d, p) ==
    IF d.kind = "null" THEN Threw                      \* null.length
    ELSE IF d.kind # "array" THEN Threw                \* Object.keys(undefined)
    ELSE IF Len(d.rows) = 0
    THEN Returned(EmptyMaskSet, <<>>,
                  << Warning("Data format not suitable for mask generation", <<>>) >>)
    ELSE
    LET rows == d.rows
        missingRatioRange == missingRatioRangeOf(p)
        maskCount == maskCountOf(p)
        keys == DOMAIN rows[1]
        landMask == landMaskOf(rows, keys)
        landPixelCount == Cardinality({ key \in keys : landMask[key] })
        seaKeys == seaKeysOf(keys, landMask)
        w1 == Warning("Generated land mask: land pixels identified", <<landPixelCount>>)
    IN  IF seaKeys = {}
        THEN Returned(MaskSet(TRUE, landMask, TRUE, <<>>),
                      << <<"landMaskGenerated", 1>>, <<"landPixelCount", landPixelCount>>,
                         <<"cloudMasksGenerated", 0>> >>,
                      << w1, Warning("No valid sea pixels found for cloud mask generation", <<>>) >>)
        ELSE LET cloudMasks == cloudLoop(rows, keys, seaKeys, missingRatioRange, maskCount, 0, <<>>)
             IN  Returned(MaskSet(TRUE, landMask, TRUE, cloudMasks),
                      << <<"landMaskGenerated", 1>>, <<"landPixelCount", landPixelCount>>,
                         <<"cloudMasksGenerated", Len(cloudMasks)>>,
                         <<"missingRatioRange", missingRatioRange[1]>>,
                         <<"missingRatioRange", missingRatioRange[2]>> >>,
                      << w1, Warning("Generated cloud masks with missing ratio in range",
                                     <<Len(cloudMasks), missingRatioRange[1], missingRatioRange[2]>>) >>)

----------------------------------------------------------------------------
(* OceanMaskProcessTool.call, operation generate_masks *)

NoResult == [ op |-> "none", status |-> "none" ]

\* try { ... generateMasks(parsedData, mask_params) ...
\*       if (output_path) { safeWriteFile(...)  success: savedOutputPath, generatedFiles
\*                                              failure: warnings.push(...) }
\*       yield result }
\* catch (e) { throw new Error(`Failed to process masks: ...`) }
callGenerateMasks(d, p, writeOk) ==
    LET maskGenResult == generateMasks(d, p.mask_params)
    IN  IF maskGenResult.threw
        THEN [ op |-> "generate_masks", status |-> "error",
               maskReport |-> <<>>, warnings |-> <<>>, masks |-> EmptyMaskSet,
               outputPath |-> FALSE, generatedFiles |-> 0 ]
        ELSE [ op |-> "generate_masks", status |-> "result",
               maskReport |-> maskGenResult.report,
               warnings |-> IF p.output_path /\ ~writeOk
                            THEN Append(maskGenResult.warnings,
                                        Warning("Failed to write mask file", <<>>))
                            ELSE maskGenResult.warnings,
               masks |-> maskGenResult.masks,
               outputPath |-> p.output_path /\ writeOk,
               generatedFiles |-> IF p.output_path /\ writeOk THEN 1 ELSE 0 ]

\* What the call leaves at the output path: JSON.stringify(maskGenResult.masks)
\* (booleans, indices and ratios only), when the write is made and succeeds.
fileAfter(before, res, content) ==
    IF res.status = "result" /\ res.outputPath THEN File(content) ELSE before

InitGenerate ==
    /\ data \in GenTables \cup Malformed
    /\ masks = NullDoc
    /\ params = NoParams
    /\ result = NoResult
    /\ outputFile = NoFile
    /\ pc = "ready"

GenerateMasksCall ==
    /\ pc = "ready"
    /\ \E p \in MaskParams, output_path \in BOOLEAN, writeOk \in BOOLEAN :
          LET res == callGenerateMasks(data, Params(p, output_path), writeOk)
          IN  /\ params' = Params(p, output_path)
              /\ result' = res
              /\ outputFile' = fileAfter(outputFile, res, res.masks)
    /\ pc' = "done"
    /\ UNCHANGED <<data, masks>>

NextGenerate == GenerateMasksCall

SpecGenerate == InitGenerate /\ [][NextGenerate]_vars

----------------------------------------------------------------------------
(* applyMasksToData and OceanMaskProcessTool.call, operation apply_masks *)

ApplyTables == { Array(t) : t \in TablesOver(GroundTruthDomain) }

\* Mask documents a mask file may hold: written by generate_masks or by hand.
MaskEntries ==
    { CloudMask(1, 5000, [ sst |-> TRUE, ice |-> FALSE ]),
      CloudMask(3, 10000, [ sst |-> TRUE, ice |-> TRUE ]),
      CloudMask(4, 3333, [ sst |-> FALSE, chl |-> TRUE ]),
      NoMaskEntry(6, 2500),
      NullEntry }

LandMasks == { [ sst |-> FALSE, ice |-> FALSE ], [ sst |-> TRUE, ice |-> FALSE ] }

CloudMaskLists == UNION { [1..n -> MaskEntries] : n \in 0..MaxMasks }

MaskDocs ==
    { MaskSet(TRUE, lm, TRUE, cms) : <<lm, cms>> \in LandMasks \X CloudMaskLists }
    \cup { MaskSet(FALSE, NoMap, TRUE, cms) : cms \in CloudMaskLists }
    \cup { MaskSet(TRUE, lm, FALSE, <<>>) : lm \in LandMasks }
    \cup { EmptyMaskSet, NullDoc }

maskRow_FirstOnly(row, mask) ==
    LET todo == { key \in DOMAIN mask : mask[key] /\ Get(row, key) # Null }
    IN  IF todo = {} THEN row
        ELSE LET key == CHOOSE k \in todo : TRUE
             IN  [ k \in DOMAIN row \cup {key} |-> IF k = key THEN Null ELSE row[k] ]

\* const newRow = { ...row }
\* Object.keys(mask).forEach(key => { if (mask[key]) newRow[key] = null })
maskRow(row, mask) ==
    LET masked == { key \in DOMAIN mask : mask[key] }
    IN  [ key \in DOMAIN row \cup masked |-> IF key \in masked THEN Null ELSE row[key] ]

Applied(rowsOut, masksApplied, warnings) ==
    [ threw |-> FALSE, data |-> rowsOut, masksApplied |-> masksApplied, warnings |-> warnings ]
ApplyThrew ==
    [ threw |-> TRUE, data |-> <<>>, masksApplied |-> 0, warnings |-> <<>> ]

applyMasksToData_Truncate(d, m) ==
    IF m.kind = "null" THEN ApplyThrew
    ELSE IF ~m.hasCloud \/ Len(m.cloudMasks) = 0
    THEN Applied(d.rows, 0, << Warning("No cloud masks found to apply", <<>>) >>)
    ELSE LET n == IF Len(m.cloudMasks) <= Len(d.rows) THEN Len(m.cloudMasks) ELSE Len(d.rows)
         IN  IF \E idx \in 1..n : m.cloudMasks[idx].kind # "null" /\ ~m.cloudMasks[idx].hasMask
             THEN ApplyThrew
             ELSE Applied([ idx \in 1..n |->
                              IF m.cloudMasks[idx].kind # "null"
                              THEN maskRow(d.rows[idx], m.cloudMasks[idx].mask)
                              ELSE d.rows[idx] ],
                          n, << Warning("Applied cloud masks to data", <<n>>) >>)

applyMasksToData_Cycle(d, m) ==
    IF m.kind = "null" THEN ApplyThrew
    ELSE IF ~m.hasCloud \/ Len(m.cloudMasks) = 0
    THEN Applied(d.rows, 0, << Warning("No cloud masks found to apply", <<>>) >>)
    ELSE LET n == IF Len(m.cloudMasks) <= Len(d.rows) THEN Len(m.cloudMasks) ELSE Len(d.rows)
             at(idx) == m.cloudMasks[((idx - 1) % Len(m.cloudMasks)) + 1]
         IN  IF \E idx \in 1..Len(d.rows) : at(idx).kind # "null" /\ ~at(idx).hasMask
             THEN ApplyThrew
             ELSE Applied([ idx \in 1..Len(d.rows) |->
                              IF at(idx).kind # "null"
                              THEN maskRow(d.rows[idx], at(idx).mask)
                              ELSE d.rows[idx] ],
                          n, << Warning("Applied cloud masks to data", <<n>>) >>)

\* applyMasksToData(data, masks); threw = TRUE when the call raises a TypeError:
\*   const { cloudMasks } = masks            -- masks is null
\*   Object.keys(cloudMasks[idx].mask)       -- the entry has no mask
applyMasksToData(d, m) ==
    IF m.kind = "null" THEN ApplyThrew
    ELSE IF ~m.hasCloud \/ Len(m.cloudMasks) = 0
    THEN Applied(d.rows, 0, << Warning("No cloud masks found to apply", <<>>) >>)
    ELSE LET n == IF Len(m.cloudMasks) <= Len(d.rows) THEN Len(m.cloudMasks) ELSE Len(d.rows)
         IN  IF \E idx \in 1..n : m.cloudMasks[idx].kind # "null" /\ ~m.cloudMasks[idx].hasMask
             THEN ApplyThrew
             ELSE Applied([ idx \in 1..Len(d.rows) |->
                              IF idx <= Len(m.cloudMasks) /\ m.cloudMasks[idx].kind # "null"
                              THEN maskRow(d.rows[idx], m.cloudMasks[idx].mask)
                              ELSE d.rows[idx] ],
                          n, << Warning("Applied cloud masks to data", <<n>>) >>)

callApplyMasks(d, m, p, writeOk) ==
    LET applyResult == applyMasksToData(d, m)
    IN  IF applyResult.threw
        THEN [ op |-> "apply_masks", status |-> "error",
               masksApplied |-> 0, warnings |-> <<>>, data |-> <<>>,
               outputPath |-> FALSE, generatedFiles |-> 0 ]
        ELSE [ op |-> "apply_masks", status |-> "result",
               masksApplied |-> applyResult.masksApplied,
               warnings |-> IF p.output_path /\ ~writeOk
                            THEN Append(applyResult.warnings,
                                        Warning("Failed to write output file", <<>>))
                            ELSE applyResult.warnings,
               data |-> applyResult.data,
               outputPath |-> p.output_path /\ writeOk,
               generatedFiles |-> IF p.output_path /\ writeOk THEN 1 ELSE 0 ]

InitApply ==
    /\ data \in ApplyTables
    /\ masks \in MaskDocs
    /\ params = NoParams
    /\ result = NoResult
    /\ outputFile = NoFile
    /\ pc = "ready"

ApplyMasksCall ==
    /\ pc = "ready"
    /\ \E output_path \in BOOLEAN, writeOk \in BOOLEAN :
          LET res == callApplyMasks(data, masks, Params(NoMaskParams, output_path), writeOk)
          IN  /\ params' = Params(NoMaskParams, output_path)
              /\ result' = res
              /\ outputFile' = fileAfter(outputFile, res, stringifyRows(res.data))
    /\ pc' = "done"
    /\ UNCHANGED <<data, masks>>

NextApply == ApplyMasksCall

SpecApply == InitApply /\ [][NextApply]_vars

----------------------------------------------------------------------------
(* buildTrainingPairs and OceanTrainingDataTool.call, operation build_pairs *)

TrainingPair(input, groundTruth, maskIndex, missingRatio) ==
    [ input |-> input, groundTruth |-> groundTruth,
      maskIndex |-> maskIndex, missingRatio |-> missingRatio ]

inputRowOf_CloudOnly(gtRow, cloudMask, m) ==
    [ key \in DOMAIN gtRow |->
        IF key \in DOMAIN cloudMask /\ cloudMask[key] THEN Null ELSE gtRow[key] ]

\* Object.keys(gtRow).forEach(key => {
\*   if (cloudMask[key] || (landMask && landMask[key])) inputRow[key] = null
\*   else inputRow[key] = gtRow[key] })
inputRowOf(gtRow, cloudMask, m) ==
    [ key \in DOMAIN gtRow |->
        IF \/ (key \in DOMAIN cloudMask /\ cloudMask[key])
           \/ (m.hasLand /\ key \in DOMAIN m.landMask /\ m.landMask[key])
        THEN Null
        ELSE gtRow[key] ]

Built(pairs, warnings) == [ threw |-> FALSE, pairs |-> pairs, warnings |-> warnings ]
BuildThrew == [ threw |-> TRUE, pairs |-> <<>>, warnings |-> <<>> ]

pairAt_IndexOfMask(gt, m, i) ==
    TrainingPair(inputRowOf(gt.rows[i + 1], m.cloudMasks[i + 1].mask, m),
                 gt.rows[i + 1], m.cloudMasks[i + 1].index, m.cloudMasks[i + 1].missingRatio)

\* pairs.push({ input: inputRow, groundTruth: gtRow, maskIndex: i,
\*              missingRatio: cloudMasks[i].missingRatio })
pairAt(gt, m, i) ==
    TrainingPair(inputRowOf(gt.rows[i + 1], m.cloudMasks[i + 1].mask, m),
                 gt.rows[i + 1], i, m.cloudMasks[i + 1].missingRatio)

\* Math.min(cloudMasks.length, groundTruth.length)
pairCount(gt, m) ==
    IF Len(m.cloudMasks) <= Len(gt.rows) THEN Len(m.cloudMasks) ELSE Len(gt.rows)

\* buildTrainingPairs(groundTruth, masks); threw = TRUE when the call raises a
\* TypeError:
\*   const { cloudMasks, landMask } = masks   -- masks is null
\*   cloudMasks[i].mask                       -- the entry is null
\*   cloudMask[key]                           -- the entry has no mask and the row has a key
buildTrainingPairs(gt, m) ==
    IF m.kind = "null" THEN BuildThrew
    ELSE IF ~m.hasCloud \/ Len(m.cloudMasks) = 0
    THEN Built(<<>>, << Warning("No cloud masks available for pair generation", <<>>) >>)
    ELSE LET n == pairCount(gt, m)
         IN  IF \E i \in 0..(n - 1) :
                    \/ m.cloudMasks[i + 1].kind = "null"
                    \/ (~m.cloudMasks[i + 1].hasMask /\ DOMAIN gt.rows[i + 1] # {})
             THEN BuildThrew
             ELSE LET pairs == [ k \in 1..n |-> pairAt(gt, m, k - 1) ]
                  IN  Built(pairs,
                            << Warning("Built training pairs (input/ground_truth)", <<Len(pairs)>>) >>)

\* serializeData(pairs, 'json'): JSON.stringify of the pairs
stringifyPairs(pairs) ==
    [ k \in 1..Len(pairs) |->
        TrainingPair(stringifyRow(pairs[k].input), stringifyRow(pairs[k].groundTruth),
                     pairs[k].maskIndex, pairs[k].missingRatio) ]

\* build_pairs always writes training_pairs.json into output_dir
callBuildPairs(gt, m, writeOk) ==
    LET pairsResult == buildTrainingPairs(gt, m)
        pairsGenerated == Len(pairsResult.pairs)
    IN  IF pairsResult.threw
        THEN [ op |-> "build_pairs", status |-> "error",
               pairsGenerated |-> 0, warnings |-> <<>>, pairs |-> <<>>,
               outputPath |-> FALSE, generatedFiles |-> 0 ]
        ELSE [ op |-> "build_pairs", status |-> "result",
               pairsGenerated |-> pairsGenerated,
               warnings |-> Append(pairsResult.warnings,
                                   IF writeOk
                                   THEN Warning("Saved training pairs", <<pairsGenerated>>)
                                   ELSE Warning("Failed to write pairs file", <<>>)),
               pairs |-> pairsResult.pairs,
               outputPath |-> writeOk,
               generatedFiles |-> IF writeOk THEN 1 ELSE 0 ]

InitPairs ==
    /\ data \in ApplyTables
    /\ masks \in MaskDocs
    /\ params = NoParams
    /\ result = NoResult
    /\ outputFile = NoFile
    /\ pc = "ready"

BuildPairsCall ==
    /\ pc = "ready"
    /\ \E writeOk \in BOOLEAN :
          LET res == callBuildPairs(data, masks, writeOk)
          IN  /\ result' = res
              /\ outputFile' = fileAfter(outputFile, res, stringifyPairs(res.pairs))
    /\ pc' = "done"
    /\ UNCHANGED <<data, masks, params>>

NextPairs == BuildPairsCall

SpecPairs == InitPairs /\ [][NextPairs]_vars

----------------------------------------------------------------------------
(* splitDataset and OceanTrainingDataTool.call, operation split_dataset *)

MaxPairs == 4

\* split_params: each ratio is absent or a number (kept in hundredths), shuffle
\* is absent or a boolean; split_params itself absent reads as all absent.
TrainRatios == {0, 50, 70, 150, -50}
ValRatios == {0, 25, 50, -50}
TestRatios == {25}

SplitParam(hasTrain, train_ratio, hasVal, val_ratio, hasTest, test_ratio, shuffle) ==
    [ hasTrain |-> hasTrain, train_ratio |-> train_ratio,
      hasVal |-> hasVal, val_ratio |-> val_ratio,
      hasTest |-> hasTest, test_ratio |-> test_ratio, shuffle |-> shuffle ]

Supplied(ratios) == { <<TRUE, r>> : r \in ratios } \cup { <<FALSE, 0>> }

SplitParams ==
    { SplitParam(tr[1], tr[2], va[1], va[2], te[1], te[2], sh) :
        tr \in Supplied(TrainRatios), va \in Supplied(ValRatios),
        te \in Supplied(TestRatios), sh \in {"absent", "true", "false"} }

NoSplitParams == SplitParam(FALSE, 0, FALSE, 0, FALSE, 0, "absent")

\* A ground-truth table of n distinct rows and a mask file with one cloud mask
\* per row, as generate_masks writes it.
SplitTable(n) == Array([ i \in 1..n |-> [ sst |-> Num(i), ice |-> Num(1) ] ])
SplitMasks(n) ==
    MaskSet(TRUE, [ sst |-> FALSE, ice |-> FALSE ], TRUE,
            [ i \in 1..n |-> CloudMask(i - 1, 5000, [ sst |-> TRUE, ice |-> FALSE ]) ])

\* params?.train_ratio || 0.7, params?.val_ratio || 0.15, params?.test_ratio || 0.15:
\* 0 is falsy
trainRatioOf(p) == IF p.hasTrain /\ p.train_ratio # 0 THEN p.train_ratio ELSE 70
valRatioOf(p) == IF p.hasVal /\ p.val_ratio # 0 THEN p.val_ratio ELSE 15
testRatioOf(p) == IF p.hasTest /\ p.test_ratio # 0 THEN p.test_ratio ELSE 15

shuffleOf_Always(p) == TRUE

\* params?.shuffle !== false
shuffleOf(p) == p.shuffle # "false"

\* Math.floor(totalSamples * ratio), the ratio in hundredths
sizeOf(totalSamples, ratio) == (totalSamples * ratio) \div 100

\* Array.prototype.slice(start, end): a negative argument counts from the end,
\* both are clamped to 0..length
relativeIndex(n, len) ==
    IF n < 0 THEN (IF len + n > 0 THEN len + n ELSE 0)
    ELSE (IF n < len THEN n ELSE len)
slice(arr, start, end) ==
    SubSeq(arr, relativeIndex(start, Len(arr)) + 1, relativeIndex(end, Len(arr)))

\* The outcomes of Math.floor(Math.random() * (i + 1)) for i = n - 1 down to 1
RandomChoices(n) == { js \in [1..(n - 1) -> 0..(n - 1)] : \A i \in 1..(n - 1) : js[i] <= i }

\* [data[i], data[j]] = [data[j], data[i]]   (0-based i and j)
swap(d, i, j) ==
    [ k \in 1..Len(d) |-> IF k = i + 1 THEN d[j + 1] ELSE IF k = j + 1 THEN d[i + 1] ELSE d[k] ]

\* for (let i = data.length - 1; i > 0; i--) { j = random; swap }
RECURSIVE fisherYates(_, _, _)
fisherYates(d, i, js) ==
    IF i <= 0 THEN d ELSE fisherYates(swap(d, i, js[i]), i - 1, js)

\* splitDataset(pairs, params) under the random choices js; pairs is the
\* caller's array after the call (the function works on the copy [...pairs]).
splitDataset(pairs, p, js) ==
    LET trainRatio == trainRatioOf(p)
        valRatio == valRatioOf(p)
        testRatio == testRatioOf(p)
        shuffle == shuffleOf(p)
        w0 == IF trainRatio + valRatio + testRatio # 100
              THEN << Warning("Warning: Split ratios sum to, adjusting to 1.0",
                              <<trainRatio + valRatio + testRatio>>) >>
              ELSE <<>>
        d == IF shuffle THEN fisherYates(pairs, Len(pairs) - 1, js) ELSE pairs
        w1 == IF shuffle THEN Append(w0, Warning("Shuffled dataset before splitting", <<>>))
              ELSE w0
        totalSamples == Len(d)
        trainSize == sizeOf(totalSamples, trainRatio)
        valSize == sizeOf(totalSamples, valRatio)
        train == slice(d, 0, trainSize)
        val == slice(d, trainSize, trainSize + valSize)
        test == slice(d, trainSize + valSize, totalSamples)
    IN  [ pairs |-> pairs, train |-> train, val |-> val, test |-> test,
          splitInfo |-> [ trainSamples |-> Len(train), valSamples |-> Len(val),
                          testSamples |-> Len(test) ],
          warnings |-> Append(w1, Warning("Split dataset: train, val, test",
                                          <<Len(train), Len(val), Len(test)>>)) ]

\* The three files train.json, val.json and test.json in output_dir
NoSplitFiles == [ train |-> NoFile, val |-> NoFile, test |-> NoFile ]

\* split_dataset: build the pairs, split them, write the three parts; a write
\* that fails adds no warning and no generated file.
callSplitDataset(gt, m, p, js, writeOk) ==
    LET pairsResult == buildTrainingPairs(gt, m)
    IN  IF pairsResult.threw
        THEN [ op |-> "split_dataset", status |-> "error", warnings |-> <<>>,
               splitInfo |-> [ trainSamples |-> 0, valSamples |-> 0, testSamples |-> 0 ],
               splitResult |-> splitDataset(<<>>, NoSplitParams, <<>>),
               generatedFiles |-> {} ]
        ELSE LET splitResult == splitDataset(pairsResult.pairs, p, js)
             IN  [ op |-> "split_dataset", status |-> "result",
                   warnings |-> pairsResult.warnings \o splitResult.warnings,
                   splitInfo |-> splitResult.splitInfo,
                   splitResult |-> splitResult,
                   generatedFiles |-> { f \in {"train", "val", "test"} : writeOk[f] } ]

splitFilesAfter(before, res) ==
    IF res.status # "result" THEN before
    ELSE [ f \in {"train", "val", "test"} |->
             IF f \in res.generatedFiles
             THEN File(stringifyPairs(res.splitResult[f]))
             ELSE before[f] ]

InitSplit ==
    /\ \E n \in 0..MaxPairs :
          /\ data = SplitTable(n)
          /\ masks \in {SplitMasks(n), NullDoc}
    /\ params = NoSplitParams
    /\ result = NoResult
    /\ outputFile = NoSplitFiles
    /\ pc = "ready"

SplitDatasetCall ==
    /\ pc = "ready"
    /\ \E p \in SplitParams,
          js \in RandomChoices(Len(data.rows)),
          writeOk \in [{"train", "val", "test"} -> BOOLEAN] :
          LET res == callSplitDataset(data, masks, p, js, writeOk)
          IN  /\ params' = p
              /\ result' = res
              /\ outputFile' = splitFilesAfter(outputFile, res)
    /\ pc' = "done"
    /\ UNCHANGED <<data, masks>>

NextSplit == SplitDatasetCall

SpecSplit == InitSplit /\ [][NextSplit]_vars

----------------------------------------------------------------------------
(* validatePairs and OceanTrainingDataTool.call, operation validate_pairs *)

\* inputKeys.length !== gtKeys.length
keyCountMismatch(pair) ==
    Cardinality(DOMAIN pair.input) # Cardinality(DOMAIN pair.groundTruth)

hasMaskedValues_InputNull(pair) ==
    \E key \in DOMAIN pair.input : pair.input[key] = Null

\* inputKeys.forEach(key => {
\*   if (input[key] === null && groundTruth[key] !== null) hasMaskedValues = true })
hasMaskedValues(pair) ==
    \E key \in DOMAIN pair.input :
        pair.input[key] = Null /\ Get(pair.groundTruth, key) # Null

\* validPercentage: Number(((validPairs / pairs.length) * 100).toFixed(2)), kept
\* in hundredths of a percent; 0 / 0 is NaN
validPercentageOf(validPairs, total) ==
    IF total = 0 THEN NaN
    ELSE Num((2 * 10000 * validPairs + total) \div (2 * total))

\* pairs.forEach((pair, idx) => ...) from pair idx (0-based) on
RECURSIVE validateLoop(_, _, _)
validateLoop(pairs, idx, acc) ==
    IF idx >= Len(pairs) THEN acc
    ELSE LET pair == pairs[idx + 1]
         IN  IF keyCountMismatch(pair)
             THEN validateLoop(pairs, idx + 1,
                      [ acc EXCEPT !.invalidPairs = @ + 1,
                                   !.warnings = Append(@, Warning("Pair: Key count mismatch", <<idx>>)) ])
             ELSE IF hasMaskedValues(pair)
             THEN validateLoop(pairs, idx + 1, [ acc EXCEPT !.validPairs = @ + 1 ])
             ELSE validateLoop(pairs, idx + 1,
                      [ acc EXCEPT !.invalidPairs = @ + 1,
                                   !.warnings = Append(@, Warning("Pair: No masked values found", <<idx>>)) ])

validatePairs(pairs) ==
    LET counted == validateLoop(pairs, 0, [ validPairs |-> 0, invalidPairs |-> 0, warnings |-> <<>> ])
    IN  [ report |-> [ totalPairs |-> Len(pairs),
                       validPairs |-> counted.validPairs,
                       invalidPairs |-> counted.invalidPairs,
                       validPercentage |-> validPercentageOf(counted.validPairs, Len(pairs)) ],
          warnings |-> Append(counted.warnings,
                              Warning("Validated pairs: valid, invalid",
                                      <<Len(pairs), counted.validPairs, counted.invalidPairs>>)) ]

\* validate_pairs: build the pairs, validate them; nothing is written
callValidatePairs(gt, m) ==
    LET pairsResult == buildTrainingPairs(gt, m)
    IN  IF pairsResult.threw
        THEN [ op |-> "validate_pairs", status |-> "error", warnings |-> <<>>,
               validationReport |-> validatePairs(<<>>).report, generatedFiles |-> 0 ]
        ELSE LET validateResult == validatePairs(pairsResult.pairs)
             IN  [ op |-> "validate_pairs", status |-> "result",
                   warnings |-> pairsResult.warnings \o validateResult.warnings,
                   validationReport |-> validateResult.report,
                   generatedFiles |-> 0 ]

InitValidate ==
    /\ data \in ApplyTables
    /\ masks \in MaskDocs
    /\ params = NoParams
    /\ result = NoResult
    /\ outputFile = NoFile
    /\ pc = "ready"

ValidatePairsCall ==
    /\ pc = "ready"
    /\ result' = callValidatePairs(data, masks)
    /\ pc' = "done"
    /\ UNCHANGED <<data, masks, params, outputFile>>

NextValidate == ValidatePairsCall

SpecValidate == InitValidate /\ [][NextValidate]_vars

----------------------------------------------------------------------------
(* performQualityControl and OceanQualityControlTool.call *)

MaxSeries == 6        \* rows in a temperature series
MaxQCRows == 2        \* rows in a table of several parameters

Bool(b) == [t |-> "bool", v |-> b]

\* Temperature series: rows that hold a temperature and nothing else.
SeriesValues == { Num(10), Num(12), Num(50) }
QCSeries ==
    UNION { [1..n -> { [ temperature |-> v ] : v \in SeriesValues }] : n \in 0..MaxSeries }

\* Rows of several parameters: a temperature that is absent, zero or high,
\* and one of salinity (null or high), pressure (negative) and oxygen.
TemperatureParts ==
    { <<>>, [ temperature |-> Num(0) ], [ temperature |-> Num(50) ] }
OtherParts ==
    { [ salinity |-> Null ], [ salinity |-> Num(45) ], [ pressure |-> Num(-1) ],
      [ oxygen |-> Num(7) ] }
QCRows == { t @@ o : <<t, o>> \in TemperatureParts \X OtherParts }
QCTables == UNION { [1..n -> QCRows] : n \in 0..MaxQCRows }

QCInputs == { Array(t) : t \in QCTables } \cup { NotArray("null"), NotArray("object") }
SeriesInputs == { Array(t) : t \in QCSeries }

\* quality_params: a range is absent or [min, max]; check_spikes is absent or
\* a boolean; spike_threshold is absent or a number.
NoRange == [ has |-> FALSE, min |-> 0, max |-> 0 ]
Range(min, max) == [ has |-> TRUE, min |-> min, max |-> max ]
NoThreshold == [ has |-> FALSE, v |-> 0 ]
Threshold(v) == [ has |-> TRUE, v |-> v ]
QualityParam(temp_range, salinity_range, pressure_range, oxygen_range, check_spikes, spike_threshold) ==
    [ temp_range |-> temp_range, salinity_range |-> salinity_range,
      pressure_range |-> pressure_range, oxygen_range |-> oxygen_range,
      check_spikes |-> check_spikes, spike_threshold |-> spike_threshold ]

NoQualityParams == QualityParam(NoRange, NoRange, NoRange, NoRange, "absent", NoThreshold)
QualityParams ==
    { NoQualityParams,
      QualityParam(Range(1, 50), Range(1, 45), Range(-1, 5), Range(0, 5), "true", NoThreshold),
      QualityParam(NoRange, NoRange, NoRange, NoRange, "false", NoThreshold),
      QualityParam(NoRange, NoRange, NoRange, NoRange, "absent", Threshold(0)),
      QualityParam(NoRange, NoRange, NoRange, NoRange, "absent", Threshold(1)),
      QualityParam(NoRange, NoRange, NoRange, NoRange, "absent", Threshold(3)) }

\* a value that || passes over: undefined, null, 0, NaN, ''
falsy(val) ==
    \/ val \in { Undef, Null, NaN, Str(""), Num(0), Bool(FALSE) }

\* row.a || row.b || row.c
firstTruthy(row, keys) ==
    IF \E k \in 1..Len(keys) : ~falsy(Get(row, keys[k]))
    THEN Get(row, keys[CHOOSE k \in 1..Len(keys) :
                        /\ ~falsy(Get(row, keys[k]))
                        /\ \A j \in 1..(k - 1) : falsy(Get(row, keys[j]))])
    ELSE Get(row, keys[Len(keys)])

\* params.temp_range || [-2, 40] and the like: an array is truthy
rangeOr(range, min, max) == IF range.has THEN range ELSE Range(min, max)

\* params.spike_threshold || 3: 0 is falsy
spikeThresholdOf(p) ==
    IF p.spike_threshold.has /\ p.spike_threshold.v # 0
    THEN p.spike_threshold.v ELSE 3

\* params.check_spikes !== false
checkSpikesOf(p) == p.check_spikes # "false"

\* val !== undefined && typeof val === 'number' && (val < range[0] || val > range[1])
outsideRange(val, range) ==
    val.t = "num" /\ (val.v < range.min \/ val.v > range.max)

tempOutlier(row, p) ==
    outsideRange(firstTruthy(row, <<"temperature", "Temperature", "temp">>),
                 rangeOr(p.temp_range, -2, 40))
salinityOutlier(row, p) ==
    outsideRange(firstTruthy(row, <<"salinity", "Salinity">>),
                 rangeOr(p.salinity_range, 0, 42))
pressureOutlier(row, p) ==
    outsideRange(firstTruthy(row, <<"pressure", "Pressure">>),
                 rangeOr(p.pressure_range, 0, 12000))
\* if (oxygenRange) { ... }
oxygenOutlier(row, p) ==
    /\ p.oxygen_range.has
    /\ outsideRange(firstTruthy(row, <<"oxygen", "Oxygen">>), p.oxygen_range)

\* isOutlier after the range checks of one row
rangeOutlier(row, p) ==
    \/ tempOutlier(row, p) \/ salinityOutlier(row, p)
    \/ pressureOutlier(row, p) \/ oxygenOutlier(row, p)

\* Math.sqrt of a perfect square
RECURSIVE sqrtBetween(_, _, _)
sqrtBetween(n, lo, hi) ==
    IF hi - lo <= 1 THEN lo
    ELSE LET mid == (lo + hi) \div 2
         IN  IF mid * mid <= n THEN sqrtBetween(n, mid, hi) ELSE sqrtBetween(n, lo, mid)
sqrt(n) == sqrtBetween(n, 0, n + 1)

\* The spike test at 0-based row i on key 'temperature'; avgNeighbor, diff and
\* stdWindow are kept doubled so that halves stay integers:
\*   avgNeighbor = (prev + next) / 2,  diff = |curr - avgNeighbor|
\*   stdWindow = sqrt(((prev - avgNeighbor)^2 + (next - avgNeighbor)^2) / 2)
\*   stdWindow > 0 && diff > spikeThreshold * stdWindow
isSpike(rows, i, spikeThreshold) ==
    LET prev == Get(rows[i], "temperature")
        curr == Get(rows[i + 1], "temperature")
        next == Get(rows[i + 2], "temperature")
    IN  /\ prev.t = "num" /\ curr.t = "num" /\ next.t = "num"
        /\ LET avgNeighbor2 == prev.v + next.v
               diff2 == IF 2 * curr.v >= avgNeighbor2 THEN 2 * curr.v - avgNeighbor2
                        ELSE avgNeighbor2 - 2 * curr.v
               square4 == ((2 * prev.v - avgNeighbor2) * (2 * prev.v - avgNeighbor2)
                           + (2 * next.v - avgNeighbor2) * (2 * next.v - avgNeighbor2)) \div 2
               stdWindow2 == sqrt(square4)
           IN  stdWindow2 > 0 /\ diff2 > spikeThreshold * stdWindow2

\* for (let i = 1; i < markedData.length - 1; i++): the 0-based rows flagged
spikeRows(rows, p) ==
    IF checkSpikesOf(p)
    THEN { i \in 1..(Len(rows) - 2) : isSpike(rows, i, spikeThresholdOf(p)) }
    ELSE {}

\* { ...row, _qc_outlier: isOutlier } and const { _qc_outlier, ...cleanRow } = row
markRow(row, isOutlier) ==
    [ key \in DOMAIN row \cup {"_qc_outlier"} |->
        IF key = "_qc_outlier" THEN Bool(isOutlier) ELSE row[key] ]
cleanRow(row) == [ key \in DOMAIN row \ {"_qc_outlier"} |-> row[key] ]

filterPassed_All(markedData, i) == markedData

\* markedData.filter(row => !row._qc_outlier), from the 1-based row i on
RECURSIVE filterPassed(_, _)
filterPassed(markedData, i) ==
    IF i > Len(markedData) THEN <<>>
    ELSE IF markedData[i]["_qc_outlier"] = Bool(TRUE)
    THEN filterPassed(markedData, i + 1)
    ELSE <<markedData[i]>> \o filterPassed(markedData, i + 1)

\* the warnings of performQualityControl, in the order they are pushed
qcWarnings(counts, spikesDetected, removeOutliers, removed) ==
    LET one(n, msg) == IF n > 0 THEN << Warning(msg, <<n>>) >> ELSE <<>>
    IN  one(counts[1], "Found temperature outliers outside range")
        \o one(counts[2], "Found salinity outliers outside range")
        \o one(counts[3], "Found pressure outliers outside range")
        \o one(counts[4], "Found oxygen outliers outside range")
        \o one(spikesDetected, "Detected spike anomalies")
        \o (IF removeOutliers THEN << Warning("Removed outlier rows", <<removed>>) >>
            ELSE << Warning("Outliers detected but not removed", <<>>) >>)

\* performQualityControl(data, params, removeOutliers); flagged is the set of
\* 0-based rows whose _qc_outlier is true before the rows are filtered, spikes
\* the rows at which spikesDetected is incremented.
performQualityControl(rows, p, removeOutliers) ==
    LET tempOutliers == Cardinality({ i \in 1..Len(rows) : tempOutlier(rows[i], p) })
        salinityOutliers == Cardinality({ i \in 1..Len(rows) : salinityOutlier(rows[i], p) })
        pressureOutliers == Cardinality({ i \in 1..Len(rows) : pressureOutlier(rows[i], p) })
        oxygenOutliers == Cardinality({ i \in 1..Len(rows) : oxygenOutlier(rows[i], p) })
        spikes == spikeRows(rows, p)
        spikesDetected == Cardinality(spikes)
        markedData == [ i \in 1..Len(rows) |->
                          markRow(rows[i], rangeOutlier(rows[i], p)
                                           \/ (checkSpikesOf(p) /\ i - 1 \in 1..(Len(rows) - 2)
                                               /\ isSpike(rows, i - 1, spikeThresholdOf(p)))) ]
        processedData ==
            IF removeOutliers
            THEN LET passed == filterPassed(markedData, 1)
                 IN  [ i \in 1..Len(passed) |-> cleanRow(passed[i]) ]
            ELSE [ i \in 1..Len(markedData) |-> cleanRow(markedData[i]) ]
        totalOutliers == tempOutliers + salinityOutliers + pressureOutliers + oxygenOutliers
    IN  [ data |-> processedData,
          flagged |-> { i \in 0..(Len(rows) - 1) : rangeOutlier(rows[i + 1], p) } \cup spikes,
          spikes |-> spikes,
          warnings |-> qcWarnings(<<tempOutliers, salinityOutliers, pressureOutliers, oxygenOutliers>>,
                                  spikesDetected, removeOutliers,
                                  Len(rows) - Len(processedData)),
          report |-> [ temperatureOutliers |-> tempOutliers,
                       salinityOutliers |-> salinityOutliers,
                       pressureOutliers |-> pressureOutliers,
                       oxygenOutliers |-> IF oxygenOutliers > 0 THEN Num(oxygenOutliers) ELSE Undef,
                       spikesDetected |-> IF checkSpikesOf(p) THEN Num(spikesDetected) ELSE Undef,
                       \* (totalOutliers / data.length) * 100, as the fraction it is
                       outlierPercentage |-> IF Len(rows) = 0 THEN NaN
                                             ELSE [ t |-> "ratio", n |-> 100 * totalOutliers,
                                                    d |-> Len(rows) ] ] ]

\* call: parsedData.length and data.map raise a TypeError on content that is
\* not an array, rethrown as `Failed to perform quality control: ...`; the
\* processed rows are written to output_path when one is supplied.
callQualityControl(d, quality_params, remove_outliers, output_path, writeOk) ==
    IF d.kind # "array"
    THEN [ op |-> "quality_control", status |-> "error",
           totalRows |-> 0, passedRows |-> 0, failedRows |-> 0,
           qcResult |-> performQualityControl(<<>>, NoQualityParams, FALSE),
           warnings |-> <<>>, outputPath |-> FALSE ]
    ELSE LET qcResult == performQualityControl(d.rows, quality_params, remove_outliers)
             totalRows == Len(d.rows)
         IN  [ op |-> "quality_control", status |-> "result",
               totalRows |-> totalRows,
               passedRows |-> Len(qcResult.data),
               failedRows |-> totalRows - Len(qcResult.data),
               qcResult |-> qcResult,
               warnings |-> IF output_path /\ ~writeOk
                            THEN Append(qcResult.warnings,
                                        Warning("Failed to write output file", <<>>))
                            ELSE qcResult.warnings,
               outputPath |-> output_path /\ writeOk ]

QCParams(quality_params, remove_outliers, output_path) ==
    [ quality_params |-> quality_params, remove_outliers |-> remove_outliers,
      output_path |-> output_path ]

InitQC ==
    /\ data \in QCInputs
    /\ masks = NullDoc
    /\ params = QCParams(NoQualityParams, FALSE, FALSE)
    /\ result = NoResult
    /\ outputFile = NoFile
    /\ pc = "ready"

QualityControlCall ==
    /\ pc = "ready"
    /\ \E quality_params \in QualityParams, remove_outliers \in BOOLEAN,
          output \in { <<FALSE, FALSE>>, <<TRUE, TRUE>>, <<TRUE, FALSE>> } :
          \E res \in { callQualityControl(data, quality_params, remove_outliers,
                                        output[1], output[2]) } :
              /\ params' = QCParams(quality_params, remove_outliers, output[1])
              /\ result' = res
              /\ outputFile' = fileAfter(outputFile, res, stringifyRows(res.qcResult.data))
    /\ pc' = "done"
    /\ UNCHANGED <<data, masks>>

NextQC == QualityControlCall

SpecQC == InitQC /\ [][NextQC]_vars

\* The same call on a temperature series
InitSeries ==
    /\ data \in SeriesInputs
    /\ masks = NullDoc
    /\ params = QCParams(NoQualityParams, FALSE, FALSE)
    /\ result = NoResult
    /\ outputFile = NoFile
    /\ pc = "ready"

SpecSeries == InitSeries /\ [][NextQC]_vars

----------------------------------------------------------------------------
(* cleanData and OceanBasicPreprocessTool.call, operation clean *)

MaxCleanRows == 3

\* Rows of a parsed table: two fields every row has and one it may lack; the
\* keys of every row are in the order of the header.
CleanDomain ==
    [ lat |-> {Null, Num(1)},
      sst |-> {Str(""), Num(1)},
      chl |-> {Absent, Null, Num(1)} ]

CleanInputs ==
    { Array(t) : t \in UNION { [1..n -> RowsOver(CleanDomain)] : n \in 0..MaxCleanRows } }
    \cup { NotArray("null"), NotArray("object") }

OperationLists == { <<"clean">>, <<"clean", "clean">> }

tooManyMissing_AtLeastHalf(row) ==
    LET keys == DOMAIN row
        missingCount == Cardinality({ key \in keys : isMissing(row[key]) })
    IN  keys # {} /\ 2 * missingCount >= Cardinality(keys)

\* missingCount / keys.length > 0.5; 0 / 0 is NaN, which is not above 0.5
tooManyMissing(row) ==
    LET keys == DOMAIN row
        missingCount == Cardinality({ key \in keys : isMissing(row[key]) })
    IN  keys # {} /\ 2 * missingCount > Cardinality(keys)

\* data.filter(row => ...), from the 1-based row i on
RECURSIVE filterKept(_, _)
filterKept(rows, i) ==
    IF i > Len(rows) THEN <<>>
    ELSE IF tooManyMissing(rows[i]) THEN filterKept(rows, i + 1)
    ELSE <<rows[i]>> \o filterKept(rows, i + 1)

\* Array.from(new Map(cleaned.map(row => [JSON.stringify(row), row])).values()):
\* a Map keeps its keys in the order of their first insertion and, for each
\* key, the value inserted last.
uniqueRows(cleaned) ==
    LET keyOf(i) == stringifyRow(cleaned[i])
        firsts == { i \in 1..Len(cleaned) : \A j \in 1..(i - 1) : keyOf(j) # keyOf(i) }
        nth(k) == CHOOSE i \in firsts : Cardinality({ j \in firsts : j <= i }) = k
        last(i) == CHOOSE j \in 1..Len(cleaned) :
                      /\ keyOf(j) = keyOf(i)
                      /\ \A l \in (j + 1)..Len(cleaned) : keyOf(l) # keyOf(i)
    IN  [ k \in 1..Cardinality(firsts) |-> cleaned[last(nth(k))] ]

cleanData(rows) ==
    LET cleaned == filterKept(rows, 1)
        removedRows == Len(rows) - Len(cleaned)
        unique == uniqueRows(cleaned)
        duplicates == Len(cleaned) - Len(unique)
    IN  [ data |-> unique,
          warnings |->
              (IF removedRows > 0
               THEN << Warning("Removed rows with excessive missing values", <<removedRows>>) >>
               ELSE <<>>)
              \o (IF duplicates > 0
                  THEN << Warning("Removed duplicate rows", <<duplicates>>) >>
                  ELSE <<>>) ]

\* for (const operation of operations) { switch (operation) { case 'clean': ... } }
RECURSIVE applyOperations(_, _, _)
applyOperations(operations, processedData, warnings) ==
    IF operations = <<>> THEN [ data |-> processedData, warnings |-> warnings ]
    ELSE LET cleanResult == cleanData(processedData)
         IN  applyOperations(Tail(operations), cleanResult.data,
                             warnings \o cleanResult.warnings)

\* call: data.filter raises a TypeError on content that is not an array,
\* rethrown as `Failed to preprocess ocean data: ...`; the processed rows are
\* written to output_path when one is supplied.
callPreprocess(d, operations, output_path, writeOk) ==
    IF d.kind # "array"
    THEN [ op |-> "preprocess", status |-> "error", processedRows |-> 0,
           data |-> <<>>, warnings |-> <<>>, outputPath |-> FALSE ]
    ELSE LET processed == applyOperations(operations, d.rows, <<>>)
         IN  [ op |-> "preprocess", status |-> "result",
               processedRows |-> Len(processed.data),
               data |-> processed.data,
               warnings |-> IF output_path /\ ~writeOk
                            THEN Append(processed.warnings,
                                        Warning("Failed to write output file", <<>>))
                            ELSE processed.warnings,
               outputPath |-> output_path /\ writeOk ]

PreprocessParams(operations, output_path) ==
    [ operations |-> operations, output_path |-> output_path ]

InitClean ==
    /\ data \in CleanInputs
    /\ masks = NullDoc
    /\ params = PreprocessParams(<<"clean">>, FALSE)
    /\ result = NoResult
    /\ outputFile = NoFile
    /\ pc = "ready"

PreprocessCall ==
    /\ pc = "ready"
    /\ \E operations \in OperationLists,
          output \in { <<FALSE, FALSE>>, <<TRUE, TRUE>>, <<TRUE, FALSE>> } :
          \E res \in { callPreprocess(data, operations, output[1], output[2]) } :
              /\ params' = PreprocessParams(operations, output[1])
              /\ result' = res
              /\ outputFile' = fileAfter(outputFile, res, stringifyRows(res.data))
    /\ pc' = "done"
    /\ UNCHANGED <<data, masks>>

NextClean == PreprocessCall

SpecClean == InitClean /\ [][NextClean]_vars

----------------------------------------------------------------------------
(* findNumericColumns, normalizeData and OceanDataPreprocessTool.call *)

MaxNumericRows == 5

\* Rows of a parsed CSV table: a cell is a number or the text that did not
\* parse as one; every row has both columns.
NumericDomain ==
    [ sst |-> {Num(1), Num(3), Str("n")},
      flag |-> {Num(1), Str("n")} ]

NumericInputs ==
    { Array(t) : t \in UNION { [1..n -> RowsOver(NumericDomain)] : n \in 0..MaxNumericRows } }
    \cup { NotArray("null"), NotArray("placeholder") }

\* typeof val === 'number'
isNumber(val) == val.t = "num" \/ val = NaN

\* data.filter(row => typeof row[key] === 'number').length
numericCount(rows, key) ==
    Cardinality({ i \in 1..Len(rows) : isNumber(Get(rows[i], key)) })

\* Object.keys(firstRow).filter(key => numericCount / data.length > 0.8)
findNumericColumns(rows) ==
    IF Len(rows) = 0 THEN {}
    ELSE { key \in DOMAIN rows[1] : 10 * numericCount(rows, key) > 8 * Len(rows) }

\* The number the operator `-` makes of a value: null and '' are 0, other
\* text and undefined are NaN.
toNumber(val) ==
    IF val.t = "num" THEN val
    ELSE IF val = Null \/ val = Str("") THEN Num(0)
    ELSE NaN

\* A quotient a / b of integers, b # 0: a number when b divides a, and
\* otherwise the fraction itself.
Quotient(a, b) ==
    IF a % b = 0 THEN Num(a \div b)
    ELSE IF b < 0 THEN [ t |-> "frac", n |-> -a, d |-> -b ]
    ELSE [ t |-> "frac", n |-> a, d |-> b ]

\* values = data.map(r => r[col]).filter(v => typeof v === 'number'); a
\* numeric column has at least one number, all of them integers here
columnValues(rows, col) ==
    { Get(rows[i], col).v : i \in { j \in 1..Len(rows) : Get(rows[j], col).t = "num" } }
minOf(values) == CHOOSE v \in values : \A w \in values : v <= w
maxOf(values) == CHOOSE v \in values : \A w \in values : v >= w

\* (row[col] - min) / (max - min)
normalizeCell(rows, row, col) ==
    LET values == columnValues(rows, col)
        n == toNumber(Get(row, col))
    IN  IF n = NaN THEN NaN
        ELSE Quotient(n.v - minOf(values), maxOf(values) - minOf(values))

\* const newRow = { ...row }
\* numericColumns.forEach(col => { if (max - min !== 0) newRow[col] = ... })
normalizeRow(rows, row, numericColumns) ==
    LET changed == { col \in numericColumns :
                       maxOf(columnValues(rows, col)) - minOf(columnValues(rows, col)) # 0 }
    IN  [ key \in DOMAIN row \cup changed |->
            IF key \in changed THEN normalizeCell(rows, row, key) ELSE row[key] ]

normalizeData(rows) ==
    LET numericColumns == findNumericColumns(rows)
    IN  IF numericColumns = {}
        THEN [ data |-> rows,
               warnings |-> << Warning("No numeric columns found for normalization", <<>>) >> ]
        ELSE [ data |-> [ i \in 1..Len(rows) |-> normalizeRow(rows, rows[i], numericColumns) ],
               warnings |->
                   << Warning("Normalized numeric columns", <<Cardinality(numericColumns)>>) >> ]

(* fillMissingData *)

\* typeof data[i][col] === 'number' && !isNaN(data[i][col])
validNumber(val) == val.t = "num"

\* Find previous (next) valid value: the 1-based index of the nearest row
\* before (after) idx that holds a valid number, 0 when there is none
prevIdxOf(rows, idx, col) ==
    LET before == { i \in 1..(idx - 1) : validNumber(Get(rows[i], col)) }
    IN  IF before = {} THEN 0 ELSE CHOOSE i \in before : \A j \in before : j <= i
nextIdxOf(rows, idx, col) ==
    LET after == { i \in (idx + 1)..Len(rows) : validNumber(Get(rows[i], col)) }
    IN  IF after = {} THEN 0 ELSE CHOOSE i \in after : \A j \in after : i <= j

\* if (maxGap && prevIdx >= 0 && nextIdx >= 0) { if (gapSize > maxGap) break }
\* an absent max_gap and a max_gap of 0 are both falsy
gapTooLarge(maxGap, prevIdx, nextIdx) ==
    /\ maxGap # Undef /\ maxGap # Num(0)
    /\ prevIdx # 0 /\ nextIdx # 0
    /\ nextIdx - prevIdx - 1 > maxGap.v

\* case 'linear': case 'nearest': case 'cubic':
interpolatedValue(rows, idx, col, method, maxGap) ==
    LET prevIdx == prevIdxOf(rows, idx, col)
        nextIdx == nextIdxOf(rows, idx, col)
    IN  IF gapTooLarge(maxGap, prevIdx, nextIdx) THEN Null
        ELSE IF prevIdx # 0 /\ nextIdx # 0
             THEN IF method = "nearest"
                  THEN IF idx - prevIdx < nextIdx - idx
                       THEN rows[prevIdx][col] ELSE rows[nextIdx][col]
                  ELSE Quotient(rows[prevIdx][col].v + rows[nextIdx][col].v, 2)
        ELSE IF prevIdx # 0 THEN rows[prevIdx][col]
        ELSE IF nextIdx # 0 THEN rows[nextIdx][col]
        ELSE Null

\* case 'mean': values.reduce((a, b) => a + b, 0) / values.length
meanValue(rows, col) ==
    LET valid == { i \in 1..Len(rows) : validNumber(Get(rows[i], col)) }
        sum[i \in 0..Len(rows)] ==
            IF i = 0 THEN 0
            ELSE sum[i - 1] + (IF i \in valid THEN rows[i][col].v ELSE 0)
    IN  IF valid = {} THEN Null ELSE Quotient(sum[Len(rows)], Cardinality(valid))

\* switch (method): the fillValue of one missing cell, null when none is found
fillValueOf(rows, idx, col, method, maxGap) ==
    CASE method \in {"linear", "nearest", "cubic"} ->
             interpolatedValue(rows, idx, col, method, maxGap)
      [] method = "forward_fill" ->
             IF prevIdxOf(rows, idx, col) = 0 THEN Null
             ELSE rows[prevIdxOf(rows, idx, col)][col]
      [] method = "backward_fill" ->
             IF nextIdxOf(rows, idx, col) = 0 THEN Null
             ELSE rows[nextIdxOf(rows, idx, col)][col]
      [] method = "mean" -> meanValue(rows, col)
      [] OTHER -> Null

FillParams(method, max_gap) == [ method |-> method, max_gap |-> max_gap ]

\* const method = params?.method || 'linear'
methodOf(fill_params) ==
    IF fill_params = Undef \/ fill_params.method = Undef \/ fill_params.method = Str("")
    THEN "linear" ELSE fill_params.method.v

\* const maxGap = params?.max_gap
maxGapOf(fill_params) == IF fill_params = Undef THEN Undef ELSE fill_params.max_gap

fillMissingData(rows, fill_params) ==
    IF Len(rows) = 0
    THEN [ data |-> rows,
           warnings |-> << Warning("Data format not suitable for filling", <<>>) >> ]
    ELSE
    LET method == methodOf(fill_params)
        maxGap == maxGapOf(fill_params)
        numericColumns == findNumericColumns(rows)
        fills == { c \in (1..Len(rows)) \X numericColumns :
                     /\ isMissing(Get(rows[c[1]], c[2]))
                     /\ fillValueOf(rows, c[1], c[2], method, maxGap) # Null }
        fillCount == Cardinality(fills)
    IN  [ data |-> [ idx \in 1..Len(rows) |->
                       [ key \in DOMAIN rows[idx] \cup { col \in numericColumns : <<idx, col>> \in fills } |->
                           IF <<idx, key>> \in fills
                           THEN fillValueOf(rows, idx, key, method, maxGap)
                           ELSE rows[idx][key] ] ],
          warnings |->
              << Warning("Filled missing values using method", <<fillCount>>) >>
              \o (IF maxGap # Undef /\ maxGap # Num(0)
                  THEN << Warning("Maximum gap size", <<maxGap.v>>) >> ELSE <<>>) ]

----------------------------------------------------------------------------
(* OceanDataPreprocessTool.call *)

\* switch (operation) of OceanDataPreprocessTool.call
applyOperation(operation, processedData, fill_params) ==
    CASE operation = "normalize" -> normalizeData(processedData)
      [] operation = "fill_missing" -> fillMissingData(processedData, fill_params)
      [] OTHER -> [ data |-> processedData, warnings |-> <<>> ]

\* for (const operation of operations) { ... }
RECURSIVE runOperations(_, _, _, _)
runOperations(operations, processedData, warnings, fill_params) ==
    IF operations = <<>> THEN [ data |-> processedData, warnings |-> warnings ]
    ELSE LET opResult == applyOperation(Head(operations), processedData, fill_params)
         IN  runOperations(Tail(operations), opResult.data,
                           warnings \o opResult.warnings, fill_params)

\* call: Object.keys(data[0]) or data.length raises a TypeError on content
\* that is not an array, rethrown as `Failed to preprocess ocean data: ...`;
\* the processed rows are written to output_path when one is supplied, and a
\* written path is reported as outputPath and in generatedFiles.
callDataPreprocess(d, operations, fill_params, output_path, writeOk) ==
    IF d.kind # "array"
    THEN [ op |-> "data_preprocess", status |-> "error", processedRows |-> 0,
           data |-> <<>>, warnings |-> <<>>, outputPath |-> FALSE, generatedFiles |-> 0 ]
    ELSE LET processed == runOperations(operations, d.rows, <<>>, fill_params)
         IN  [ op |-> "data_preprocess", status |-> "result",
               processedRows |-> Len(processed.data),
               data |-> processed.data,
               warnings |-> IF output_path /\ ~writeOk
                            THEN Append(processed.warnings,
                                        Warning("Failed to write output file", <<>>))
                            ELSE processed.warnings,
               outputPath |-> output_path /\ writeOk,
               generatedFiles |-> IF output_path /\ writeOk THEN 1 ELSE 0 ]

InitNormalize ==
    /\ data \in NumericInputs
    /\ masks = NullDoc
    /\ params = PreprocessParams(<<"normalize">>, FALSE)
    /\ result = NoResult
    /\ outputFile = NoFile
    /\ pc = "ready"

NormalizeCall ==
    /\ pc = "ready"
    /\ \E output \in { <<FALSE, FALSE>>, <<TRUE, TRUE>>, <<TRUE, FALSE>> } :
          \E res \in { callDataPreprocess(data, <<"normalize">>, Undef, output[1], output[2]) } :
              /\ params' = PreprocessParams(<<"normalize">>, output[1])
              /\ result' = res
              /\ outputFile' = fileAfter(outputFile, res, stringifyRows(res.data))
    /\ pc' = "done"
    /\ UNCHANGED <<data, masks>>

NextNormalize == NormalizeCall

SpecNormalize == InitNormalize /\ [][NextNormalize]_vars

----------------------------------------------------------------------------
(* OceanDataPreprocessTool.call with the operation fill_missing *)

MaxFillRows == 11
MaxMissing == 3
MaxGap == 2

\* A column of MaxFillRows observations, the i-th being 2 * i, of which at
\* most MaxMissing are missing (null)
FillInputs ==
    { Array([ i \in 1..MaxFillRows |->
                [ sst |-> IF i \in missing THEN Null ELSE Num(2 * i) ] ]) :
        missing \in { m \in SUBSET (1..MaxFillRows) : Cardinality(m) <= MaxMissing } }

\* fill_params of the schema: method is one of the enum or absent, max_gap a
\* number or absent
FillMethods == { "linear", "nearest", "cubic", "forward_fill", "backward_fill", "mean" }
FillParamSets ==
    { FillParams(method, max_gap) :
        method \in { Str(m) : m \in FillMethods } \cup {Undef},
        max_gap \in { Num(g) : g \in 0..MaxGap } \cup {Undef} }
    \cup {Undef}

FillCallParams(fill_params, output_path) ==
    [ operations |-> <<"fill_missing">>, fill_params |-> fill_params,
      output_path |-> output_path ]

InitFill ==
    /\ data \in FillInputs
    /\ masks = NullDoc
    /\ params = FillCallParams(Undef, FALSE)
    /\ result = NoResult
    /\ outputFile = NoFile
    /\ pc = "ready"

FillCall ==
    /\ pc = "ready"
    /\ \E fill_params \in FillParamSets :
       \E output \in { <<FALSE, FALSE>>, <<TRUE, TRUE>>, <<TRUE, FALSE>> } :
          \E res \in { callDataPreprocess(data, <<"fill_missing">>, fill_params,
                                         output[1], output[2]) } :
              /\ params' = FillCallParams(fill_params, output[1])
              /\ result' = res
              /\ outputFile' = fileAfter(outputFile, res, stringifyRows(res.data))
    /\ pc' = "done"
    /\ UNCHANGED <<data, masks>>

NextFill == FillCall

SpecFill == InitFill /\ [][NextFill]_vars

----------------------------------------------------------------------------
(* filterData and OceanDataFilterTool.call *)

MaxFilterRows == 2

\* Rows of a parsed table, each with the fields it has
FilterRows ==
    { [ sst |-> Num(1) ],
      [ depth |-> Num(0) ], [ depth |-> Num(5) ], [ depth |-> Num(20) ],
      [ depth |-> Null ], [ Depth |-> Num(5) ],
      [ depth |-> Num(5), lat |-> Num(20) ],
      [ lat |-> Num(5) ], [ lat |-> Num(20) ], [ lat |-> Str("") ],
      [ lon |-> Num(5) ],
      [ temperature |-> Num(0) ], [ temperature |-> Num(20) ],
      [ salinity |-> Num(35) ],
      [ date |-> Str("2020-01-01") ], [ date |-> Str("2021-01-01") ],
      [ date |-> Str("n/a") ] }

FilterInputs ==
    { Array(t) : t \in UNION { [1..n -> FilterRows] : n \in 0..MaxFilterRows } }
    \cup { NotArray("null"), NotArray("object") }

\* filter_params: a member not supplied is undefined (NoRange for a tuple)
FilterParam(start_date, end_date, min_depth, max_depth, latitude_range, longitude_range, min_temperature, max_temperature, min_salinity, max_salinity) ==
    [ start_date |-> start_date, end_date |-> end_date,
      min_depth |-> min_depth, max_depth |-> max_depth,
      latitude_range |-> latitude_range, longitude_range |-> longitude_range,
      min_temperature |-> min_temperature, max_temperature |-> max_temperature,
      min_salinity |-> min_salinity, max_salinity |-> max_salinity ]

NoFilterParams ==
    FilterParam(Undef, Undef, Undef, Undef, NoRange, NoRange, Undef, Undef, Undef, Undef)

FilterParams ==
    { [ NoFilterParams EXCEPT !.min_depth = Num(5) ],
      [ NoFilterParams EXCEPT !.min_depth = Num(0), !.max_depth = Num(10) ],
      [ NoFilterParams EXCEPT !.latitude_range = Range(1, 10) ],
      [ NoFilterParams EXCEPT !.latitude_range = Range(1, 10), !.longitude_range = Range(10, 20) ],
      [ NoFilterParams EXCEPT !.min_temperature = Num(1), !.max_temperature = Num(10) ],
      [ NoFilterParams EXCEPT !.max_salinity = Num(30) ],
      [ NoFilterParams EXCEPT !.start_date = Str("2020-06-01") ],
      [ NoFilterParams EXCEPT !.end_date = Str("2020-06-01"), !.min_depth = Num(5) ] }

\* new Date(s).getTime() of an ISO date, in days since the epoch; NaN for a
\* text that is no date
DayOf == [ s \in {"2020-01-01", "2020-06-01", "2021-01-01"} |->
             IF s = "2020-01-01" THEN 18262 ELSE IF s = "2020-06-01" THEN 18414 ELSE 18628 ]
dateOf(val) ==
    IF val.t = "str" /\ val.v \in DOMAIN DayOf THEN Num(DayOf[val.v]) ELSE NaN

\* a < b and a > b of JavaScript: both sides become numbers, and a comparison
\* with NaN is false
lessThan(a, b) == toNumber(a) # NaN /\ toNumber(b) # NaN /\ toNumber(a).v < toNumber(b).v
greaterThan(a, b) == lessThan(b, a)

\* the callback of the date filter
dateKept(row, p) ==
    LET dateStr == firstTruthy(row, <<"date", "Date", "datetime", "time">>)
        date == dateOf(dateStr)
    IN  \/ falsy(dateStr)
        \/ date = NaN
        \/ /\ ~(~falsy(p.start_date) /\ lessThan(date, dateOf(p.start_date)))
           /\ ~(~falsy(p.end_date) /\ greaterThan(date, dateOf(p.end_date)))

\* the callback of the depth, temperature and salinity filters
boundsKept(val, min, max) ==
    \/ val = Undef
    \/ /\ ~(min # Undef /\ lessThan(val, min))
       /\ ~(max # Undef /\ greaterThan(val, max))

\* lat !== undefined && (lat < range[0] || lat > range[1]) returns false
rangeKept(val, range) ==
    ~( /\ range.has
       /\ val # Undef
       /\ (lessThan(val, Num(range.min)) \/ greaterThan(val, Num(range.max))) )

\* One filter stage, when its parameters are supplied: filtered takes the
\* place of the rows and a warning counts the rows removed
stage(acc, enabled, filtered, name) ==
    IF ~enabled THEN acc
    ELSE [ data |-> filtered,
           warnings |-> Append(acc.warnings,
                               Warning(name, <<Len(acc.data) - Len(filtered)>>)) ]

filterData(rows, p) ==
    LET byDate ==
            stage([ data |-> rows, warnings |-> <<>> ],
                  ~falsy(p.start_date) \/ ~falsy(p.end_date),
                  SelectSeq(rows, LAMBDA row : dateKept(row, p)),
                  "Date filter: removed rows")
        byDepth ==
            stage(byDate, p.min_depth # Undef \/ p.max_depth # Undef,
                  SelectSeq(byDate.data,
                            LAMBDA row : boundsKept(firstTruthy(row, <<"depth", "Depth">>),
                                                    p.min_depth, p.max_depth)),
                  "Depth filter: removed rows")
        byCoordinate ==
            stage(byDepth, p.latitude_range.has \/ p.longitude_range.has,
                  SelectSeq(byDepth.data,
                            LAMBDA row :
                                /\ rangeKept(firstTruthy(row, <<"latitude", "Latitude", "lat">>),
                                             p.latitude_range)
                                /\ rangeKept(firstTruthy(row, <<"longitude", "Longitude", "lon">>),
                                             p.longitude_range)),
                  "Coordinate filter: removed rows")
        byTemperature ==
            stage(byCoordinate, p.min_temperature # Undef \/ p.max_temperature # Undef,
                  SelectSeq(byCoordinate.data,
                            LAMBDA row :
                                boundsKept(firstTruthy(row, <<"temperature", "Temperature", "temp">>),
                                           p.min_temperature, p.max_temperature)),
                  "Temperature filter: removed rows")
        bySalinity ==
            stage(byTemperature, p.min_salinity # Undef \/ p.max_salinity # Undef,
                  SelectSeq(byTemperature.data,
                            LAMBDA row : boundsKept(firstTruthy(row, <<"salinity", "Salinity">>),
                                                    p.min_salinity, p.max_salinity)),
                  "Salinity filter: removed rows")
    IN  [ data |-> bySalinity.data,
          warnings |-> Append(bySalinity.warnings,
                              Warning("Total filtered",
                                      <<Len(rows), Len(bySalinity.data),
                                        Len(rows) - Len(bySalinity.data)>>)) ]

\* call: parsedData.length or [...data] raises a TypeError on content that is
\* not an array, rethrown as `Failed to filter ocean data: ...`; the filtered
\* rows are written to output_path when one is supplied.
callFilter(d, filter_params, output_path, writeOk) ==
    IF d.kind # "array"
    THEN [ op |-> "filter", status |-> "error",
           originalRows |-> 0, filteredRows |-> 0, removedRows |-> 0,
           data |-> <<>>, warnings |-> <<>>, outputPath |-> FALSE ]
    ELSE LET filterResult == filterData(d.rows, filter_params)
             originalRows == Len(d.rows)
         IN  [ op |-> "filter", status |-> "result",
               originalRows |-> originalRows,
               filteredRows |-> Len(filterResult.data),
               removedRows |-> originalRows - Len(filterResult.data),
               data |-> filterResult.data,
               warnings |-> IF output_path /\ ~writeOk
                            THEN Append(filterResult.warnings,
                                        Warning("Failed to write output file", <<>>))
                            ELSE filterResult.warnings,
               outputPath |-> output_path /\ writeOk ]

FilterCallParams(filter_params, output_path) ==
    [ filter_params |-> filter_params, output_path |-> output_path ]

InitFilter ==
    /\ data \in FilterInputs
    /\ masks = NullDoc
    /\ params = FilterCallParams(NoFilterParams, FALSE)
    /\ result = NoResult
    /\ outputFile = NoFile
    /\ pc = "ready"

FilterCall ==
    /\ pc = "ready"
    /\ \E filter_params \in FilterParams,
          output \in { <<FALSE, FALSE>>, <<TRUE, TRUE>>, <<TRUE, FALSE>> } :
          \E res \in { callFilter(data, filter_params, output[1], output[2]) } :
              /\ params' = FilterCallParams(filter_params, output[1])
              /\ result' = res
              /\ outputFile' = fileAfter(outputFile, res, stringifyRows(res.data))
    /\ pc' = "done"
    /\ UNCHANGED <<data, masks>>

NextFilter == FilterCall

SpecFilter == InitFilter /\ [][NextFilter]_vars

----------------------------------------------------------------------------
(* validateInput of every tool, and the reading of the input by call *)

Tools ==
    { "OceanMaskProcess", "OceanTrainingData", "OceanQualityControl", "OceanDataFilter",
      "OceanBasicPreprocess", "OceanDataPreprocess", "OceanFullPreprocess" }

\* const DATA_EXTENSIONS = new Set([...])
DATA_EXTENSIONS == { ".csv", ".json", ".xlsx", ".xls", ".txt", ".nc", ".hdf5", ".h5" }

\* What safeGetFileInfo finds at the input path: whether a file is there, the
\* extension of the path, and whether stats.size is above MAX_OUTPUT_SIZE.
FileInfo(exists, ext, large) == [ exists |-> exists, ext |-> ext, large |-> large ]
FileInfos ==
    { FileInfo(TRUE, ext, large) : ext \in { ".csv", ".xlsx", ".exe" }, large \in BOOLEAN }
    \cup { FileInfo(FALSE, ext, FALSE) : ext \in { ".csv", ".exe" } }

\* A request: the tool, its operation (of the mask tool), and for each of
\* mask_file_path and the output path (output_path or output_dir) whether it
\* is "absent" from the request, names something "missing" (the mask file, the
\* directory of the output) or something that "exists"; filter_params says
\* whether the filter tool is given a filter parameter.
Request(tool, operation, mask_file_path, filter_params, output) ==
    [ tool |-> tool, operation |-> operation, mask_file_path |-> mask_file_path,
      filter_params |-> filter_params, output |-> output ]
Paths == { "absent", "missing", "exists" }
Requests ==
    { Request("OceanMaskProcess", op, m, FALSE, "absent") :
        op \in { "generate_masks", "apply_masks", "analyze_masks" }, m \in Paths }
    \cup { Request("OceanTrainingData", "build_pairs", m, FALSE, o) :
             m \in { "missing", "exists" }, o \in { "missing", "exists" } }
    \cup { Request("OceanDataFilter", "none", "absent", f, o) : f \in BOOLEAN, o \in Paths }
    \cup { Request(tool, "none", "absent", FALSE, o) :
             tool \in { "OceanQualityControl", "OceanBasicPreprocess", "OceanDataPreprocess" },
             o \in Paths }
    \cup { Request("OceanFullPreprocess", "none", "absent", FALSE, o) :
             o \in { "missing", "exists" } }

Accepted == [ result |-> TRUE, message |-> "" ]
Rejected(message) == [ result |-> FALSE, message |-> message ]

\* OceanMaskProcessTool.validateInput
validateMaskProcess(file, req) ==
    IF ~file.exists THEN Rejected("Ocean data file does not exist.")
    ELSE IF file.ext \notin DATA_EXTENSIONS THEN Rejected("Unsupported file format")
    ELSE IF req.operation \in { "apply_masks", "analyze_masks" } /\ req.mask_file_path = "absent"
    THEN Rejected("operation requires mask_file_path parameter")
    ELSE IF req.mask_file_path = "missing" THEN Rejected("Mask file does not exist")
    ELSE Accepted

\* OceanTrainingDataTool.validateInput
validateTrainingData(file, req) ==
    IF ~file.exists THEN Rejected("Ground truth file does not exist.")
    ELSE IF req.mask_file_path # "exists" THEN Rejected("Mask file does not exist.")
    ELSE IF req.output # "exists" THEN Rejected("Output directory does not exist")
    ELSE Accepted

\* OceanQualityControlTool.validateInput
validateQualityControl(file, req) ==
    IF ~file.exists THEN Rejected("Ocean data file does not exist.")
    ELSE IF file.ext \notin DATA_EXTENSIONS THEN Rejected("Unsupported file format")
    ELSE IF file.large THEN Rejected("File size exceeds maximum")
    ELSE IF req.output = "missing" THEN Rejected("Output directory does not exist")
    ELSE Accepted

\* OceanDataFilterTool.validateInput
validateDataFilter(file, req) ==
    IF ~file.exists THEN Rejected("Ocean data file does not exist.")
    ELSE IF file.ext \notin DATA_EXTENSIONS THEN Rejected("Unsupported file format")
    ELSE IF file.large THEN Rejected("File size exceeds maximum")
    ELSE IF ~req.filter_params THEN Rejected("At least one filter parameter must be specified")
    ELSE IF req.output = "missing" THEN Rejected("Output directory does not exist")
    ELSE Accepted

\* OceanBasicPreprocessTool.validateInput
validateBasicPreprocess(file, req) ==
    IF ~file.exists THEN Rejected("Ocean data file does not exist.")
    ELSE IF file.ext \notin DATA_EXTENSIONS THEN Rejected("Unsupported file format")
    ELSE IF file.large THEN Rejected("File size exceeds maximum")
    ELSE IF req.output = "missing" THEN Rejected("Output directory does not exist")
    ELSE Accepted

\* OceanDataPreprocessTool.validateInput; the operations of a request are
\* among VALID_OPERATIONS
validateDataPreprocess(file, req) ==
    IF ~file.exists THEN Rejected("Ocean data file does not exist.")
    ELSE IF file.ext \notin DATA_EXTENSIONS THEN Rejected("Unsupported file format")
    ELSE IF file.large THEN Rejected("File size exceeds maximum allowed size")
    ELSE IF req.output = "missing" THEN Rejected("Output directory does not exist")
    ELSE Accepted

\* OceanFullPreprocessTool.validateInput
validateFullPreprocess(file, req) ==
    IF ~file.exists THEN Rejected("Ocean data file does not exist.")
    ELSE IF req.output # "exists" THEN Rejected("Output directory does not exist")
    ELSE Accepted

validateInput(file, req) ==
    CASE req.tool = "OceanMaskProcess" -> validateMaskProcess(file, req)
      [] req.tool = "OceanTrainingData" -> validateTrainingData(file, req)
      [] req.tool = "OceanQualityControl" -> validateQualityControl(file, req)
      [] req.tool = "OceanDataFilter" -> validateDataFilter(file, req)
      [] req.tool = "OceanBasicPreprocess" -> validateBasicPreprocess(file, req)
      [] req.tool = "OceanDataPreprocess" -> validateDataPreprocess(file, req)
      [] req.tool = "OceanFullPreprocess" -> validateFullPreprocess(file, req)

\* parseDataFile(content, ext) returns for .csv, .txt, .json, .nc, .h5 and
\* .hdf5 and throws for any other extension
parses(ext) == ext \in { ".csv", ".txt", ".json", ".nc", ".h5", ".hdf5" }

\* safeReadFile(fullFilePath, { maxFileSize: MAX_OUTPUT_SIZE }).success
readsInput(file) == file.exists /\ ~file.large

\* The reading of call: every tool reads and parses the input file (the mask
\* tool's analyze_masks reads the mask file alone), the mask and training
\* tools then read the mask file; a failure is thrown out of call.
callInput(file, req) ==
    LET needsInput == ~(req.tool = "OceanMaskProcess" /\ req.operation = "analyze_masks")
        needsMask ==
            \/ req.tool = "OceanTrainingData"
            \/ req.tool = "OceanMaskProcess" /\ req.operation \in { "apply_masks", "analyze_masks" }
    IN  IF needsInput /\ ~readsInput(file)
        THEN [ op |-> "call", status |-> "error", message |-> "Failed to read data file" ]
        ELSE IF needsInput /\ ~parses(file.ext)
        THEN [ op |-> "call", status |-> "error", message |-> "Parsing not yet implemented" ]
        ELSE IF needsMask /\ req.mask_file_path # "exists"
        THEN [ op |-> "call", status |-> "error", message |-> "Failed to read mask file" ]
        ELSE [ op |-> "call", status |-> "processing", message |-> "" ]

InitRequest ==
    /\ data \in FileInfos
    /\ masks = NullDoc
    /\ params \in Requests
    /\ result = NoResult
    /\ outputFile = NoFile
    /\ pc = "ready"

ValidateInput ==
    /\ pc = "ready"
    /\ \E res \in { validateInput(data, params) } :
          /\ result' = [ op |-> "validateInput", validation |-> res ]
          /\ pc' = IF res.result THEN "validated" ELSE "rejected"
    /\ UNCHANGED <<data, masks, params, outputFile>>

\* call runs on a request that validateInput accepted
CallInput ==
    /\ pc = "validated"
    /\ result' = callInput(data, params) @@ [ validation |-> result.validation ]
    /\ pc' = "called"
    /\ UNCHANGED <<data, masks, params, outputFile>>

NextRequest == ValidateInput \/ CallInput

SpecRequest == InitRequest /\ [][NextRequest]_vars

----------------------------------------------------------------------------
(* executePythonProcessor *)

MaxChunks == 2

\* A text is a sequence of characters.  What the subprocess writes to stdout
\* arrives in chunks; stderr likewise.
OutChunks == { <<"1">>, <<"{">>, <<"}">>, <<"{", "}">> }
ErrChunks == { <<"e">> }
ChunkLists(chunks) == UNION { [1..n -> chunks] : n \in 0..MaxChunks }

\* How a spawned subprocess ends: exit codes 0 and 1, or killed by a signal,
\* for which close reports the code null
ExitCodes == { Num(0), Num(1), Null }

\* The subprocess: whether spawn fails (python3 is not found), the chunks it
\* has yet to deliver on each stream and its exit code.  A failed spawn
\* writes nothing and close reports the negative error number.
Subprocess(spawnFails, out, err, code) ==
    [ spawnFails |-> spawnFails, out |-> out, err |-> err, code |-> code ]
Subprocesses ==
    { Subprocess(FALSE, out, err, code) :
        out \in ChunkLists(OutChunks), err \in ChunkLists(ErrChunks), code \in ExitCodes }
    \cup { Subprocess(TRUE, <<>>, <<>>, Num(-2)) }

RECURSIVE concat(_)
concat(chunks) == IF chunks = <<>> THEN <<>> ELSE Head(chunks) \o concat(Tail(chunks))

\* JSON.parse(stdout) on texts over the characters 1, { and }: a run of
\* digits is the number it spells, {} is the empty object, and anything else
\* (the empty text included) throws a SyntaxError.
RECURSIVE numberOf(_)
numberOf(text) ==
    IF text = <<>> THEN 0 ELSE 10 * numberOf(SubSeq(text, 1, Len(text) - 1)) + 1
parseJSON(text) ==
    IF text # <<>> /\ \A k \in 1..Len(text) : text[k] = "1"
    THEN [ ok |-> TRUE, value |-> Num(numberOf(text)) ]
    ELSE IF text = <<"{", "}">> THEN [ ok |-> TRUE, value |-> [ t |-> "object" ] ]
    ELSE [ ok |-> FALSE, value |-> Undef ]

\* The promise and the closure of its executor
Pending == [ state |-> "pending", value |-> Undef ]
Execution(promise, stdout, stderr, spawns) ==
    [ op |-> "executePythonProcessor", promise |-> promise,
      stdout |-> stdout, stderr |-> stderr, spawns |-> spawns ]

\* resolve(value) and reject(error): the first call settles the promise and
\* every later call is ignored
settle(promise, state, value) ==
    IF promise.state = "pending" THEN [ state |-> state, value |-> value ] ELSE promise

ExitError(code, stderr) == [ error |-> "Python process exited with code", code |-> code, stderr |-> stderr ]
ParseError(stdout) == [ error |-> "Failed to parse Python output", stdout |-> stdout ]
StartError == [ error |-> "Failed to start Python process" ]

onClose_SkipsCode(promise, code, stdout, stderr) ==
    LET parsed == parseJSON(stdout)
    IN  IF parsed.ok THEN settle(promise, "resolved", parsed.value)
        ELSE settle(promise, "rejected", ParseError(stdout))

\* python.on('close', (code) => { ... })
onClose(promise, code, stdout, stderr) ==
    IF code # Num(0) THEN settle(promise, "rejected", ExitError(code, stderr))
    ELSE LET parsed == parseJSON(stdout)
         IN  IF parsed.ok THEN settle(promise, "resolved", parsed.value)
             ELSE settle(promise, "rejected", ParseError(stdout))

\* python.on('error', (err) => { ... })
onError(promise) == settle(promise, "rejected", StartError)

InitPython ==
    /\ data \in Subprocesses
    /\ masks = NullDoc
    /\ params = [ command |-> "preprocess" ]
    /\ result = NoResult
    /\ outputFile = NoFile
    /\ pc = "ready"

\* The executor: spawn('python3', args) and the registration of the handlers
Spawn ==
    /\ pc = "ready"
    /\ result' = Execution(Pending, <<>>, <<>>, 1)
    /\ pc' = IF data.spawnFails THEN "failed" ELSE "running"
    /\ UNCHANGED <<data, masks, params, outputFile>>

\* python.stdout.on('data', ...): stdout += data.toString()
StdoutData ==
    /\ pc = "running"
    /\ data.out # <<>>
    /\ result' = [ result EXCEPT !.stdout = @ \o Head(data.out) ]
    /\ data' = [ data EXCEPT !.out = Tail(@) ]
    /\ UNCHANGED <<masks, params, outputFile, pc>>

\* python.stderr.on('data', ...): stderr += data.toString()
StderrData ==
    /\ pc = "running"
    /\ data.err # <<>>
    /\ result' = [ result EXCEPT !.stderr = @ \o Head(data.err) ]
    /\ data' = [ data EXCEPT !.err = Tail(@) ]
    /\ UNCHANGED <<masks, params, outputFile, pc>>

\* 'error' is emitted when the process could not be spawned
Error ==
    /\ pc = "failed"
    /\ result' = [ result EXCEPT !.promise = onError(@) ]
    /\ pc' = "errored"
    /\ UNCHANGED <<data, masks, params, outputFile>>

\* 'close' is emitted after the process has ended and its stdio streams have
\* been closed, so after every chunk has been delivered; after a failed spawn
\* it follows 'error'
Close ==
    /\ \/ pc = "running" /\ data.out = <<>> /\ data.err = <<>>
       \/ pc = "errored"
    /\ result' = [ result EXCEPT
                     !.promise = onClose(@, data.code, result.stdout, result.stderr) ]
    /\ pc' = "closed"
    /\ UNCHANGED <<data, masks, params, outputFile>>

NextPython == Spawn \/ StdoutData \/ StderrData \/ Error \/ Close

SpecPython == InitPython /\ [][NextPython]_vars

----------------------------------------------------------------------------
(* OceanFullPreprocessTool.call, and the files a call reads and writes *)

MaxFileRows == 2

\* Rows of the input file, a JSON array; clean would drop the null row and a
\* repeated row, quality control flags 50
FileRows == { [ temperature |-> Num(10) ], [ temperature |-> Num(50) ], [ temperature |-> Null ] }
FileContents ==
    { Array(t) : t \in UNION { [1..n -> FileRows] : n \in 0..MaxFileRows } }
    \cup { NotArray("null"), NotArray("object") }

\* The paths of the model: the input is a file of its own directory or the
\* file processed_data.json of the output directory
InputPaths == { "data/in.json", "out/processed_data.json" }
AllPaths == { "data/in.json", "out/processed_data.json", "out/masks.json", "out/qc.json" }

\* path.join(fullOutputDir, `masks.${output_format}`) and
\* path.join(fullOutputDir, `processed_data.${output_format}`), output_dir
\* being out and output_format json
maskPathOf(output_dir) == "out/masks.json"
finalDataPathOf(output_dir) == "out/processed_data.json"

\* The content of the files: the input file holds the JSON text of its rows
FilesWith(file_path, d) ==
    [ path \in AllPaths |-> IF path = file_path THEN File(d) ELSE NoFile ]

\* pipeline_config and the configuration a workflow stands for; a step that
\* is not configured is undefined, and so is a member of a step that is not
\* supplied
List(items) == [ t |-> "array", v |-> items ]
Config(basic_preprocess, filter, quality_control, mask_process, training_data) ==
    [ basic_preprocess |-> basic_preprocess, filter |-> filter,
      quality_control |-> quality_control, mask_process |-> mask_process,
      training_data |-> training_data ]
NoConfig == Config(Undef, Undef, Undef, Undef, Undef)

PipelineConfigs ==
    { NoConfig,
      Config([ operations |-> Undef ], [ enabled |-> TRUE ], Undef, Undef, Undef),
      Config(Undef, [ enabled |-> FALSE ],
             [ enabled |-> TRUE, remove_outliers |-> TRUE ], Undef,
             [ enabled |-> TRUE, operation |-> Undef ]),
      Config([ operations |-> List(<<"clean">>) ], Undef, Undef,
             [ enabled |-> TRUE, operation |-> Str("apply_masks") ],
             [ enabled |-> TRUE, operation |-> Str("split_dataset") ]) }

Workflows == { "basic_preprocess", "quality_analysis", "training_prep", "custom" }

FullParam(file_path, workflow, pipeline_config, output_dir) ==
    [ tool |-> "OceanFullPreprocess", file_path |-> file_path, workflow |-> workflow,
      pipeline_config |-> pipeline_config, output_dir |-> output_dir ]

\* let config = { ...pipeline_config }; if (workflow === ...) config = { ... }
configOf(workflow, pipeline_config) ==
    CASE workflow = "basic_preprocess" ->
           Config([ operations |-> List(<<"clean", "interpolate", "normalize", "statistics">>) ],
                  Undef, Undef, Undef, Undef)
      [] workflow = "quality_analysis" ->
           Config([ operations |-> List(<<"clean", "statistics">>) ], Undef,
                  [ enabled |-> TRUE, remove_outliers |-> FALSE ], Undef, Undef)
      [] workflow = "training_prep" ->
           Config([ operations |-> List(<<"clean", "normalize">>) ], Undef,
                  [ enabled |-> TRUE, remove_outliers |-> TRUE ],
                  [ enabled |-> TRUE, operation |-> Str("generate_masks") ], Undef)
      [] OTHER -> pipeline_config

\* config.step?.enabled
enabled(step) == step # Undef /\ step.enabled

\* a || b on an optional text or list
orDefault(val, default) == IF val = Undef THEN default ELSE val

\* The five step blocks of call, in their order: each enabled step counts,
\* names itself, logs and records its result; none of them assigns
\* currentData.
runSteps(config, currentData, output_dir) ==
    LET n == Len(currentData)
        steps ==
            (IF config.basic_preprocess # Undef THEN <<"basic_preprocess">> ELSE <<>>)
            \o (IF enabled(config.filter) THEN <<"filter">> ELSE <<>>)
            \o (IF enabled(config.quality_control) THEN <<"quality_control">> ELSE <<>>)
            \o (IF enabled(config.mask_process) THEN <<"mask_process">> ELSE <<>>)
            \o (IF enabled(config.training_data) THEN <<"training_data">> ELSE <<>>)
        stepResult(step) ==
            CASE step = "basic_preprocess" ->
                   [ operations |-> orDefault(config.basic_preprocess.operations,
                                              List(<<"clean", "statistics">>)).v,
                     rowsBefore |-> n, rowsAfter |-> n ]
              [] step = "filter" -> [ rowsBefore |-> n, rowsAfter |-> n, removed |-> n - n ]
              [] step = "quality_control" -> [ totalRows |-> n, outliers |-> 0, passed |-> n ]
              [] step = "mask_process" ->
                   [ operation |-> orDefault(config.mask_process.operation, Str("generate_masks")).v,
                     masksGenerated |-> 0 ]
              [] step = "training_data" ->
                   [ operation |-> orDefault(config.training_data.operation, Str("build_pairs")).v,
                     pairsGenerated |-> 0 ]
        log(k) ==
            CASE steps[k] = "basic_preprocess" ->
                   << Warning("[Step] Basic preprocessing...", <<k>>),
                      Warning("Completed", stepResult(steps[k]).operations) >>
              [] steps[k] = "filter" -> << Warning("[Step] Applying filters...", <<k>>) >>
              [] steps[k] = "quality_control" ->
                   << Warning("[Step] Quality control checks...", <<k>>),
                      Warning("QC passed rows", <<n>>) >>
              [] steps[k] = "mask_process" ->
                   << Warning("[Step] Processing masks...", <<k>>),
                      Warning("Masks saved to", <<maskPathOf(output_dir)>>) >>
              [] steps[k] = "training_data" ->
                   << Warning("[Step] Generating training data...", <<k>>) >>
    IN  [ currentData |-> currentData,
          pipelineSteps |-> steps,
          stepCount |-> Len(steps),
          stepResults |-> [ step \in { steps[k] : k \in 1..Len(steps) } |-> stepResult(step) ],
          warnings |-> concat([ k \in 1..Len(steps) |-> log(k) ]),
          generatedFiles |-> IF enabled(config.mask_process)
                             THEN << maskPathOf(output_dir) >> ELSE <<>> ]

\* call: null content throws at currentData.length before anything is
\* written; an object that is no array passes the steps and the write and
\* throws in generatePreview; either is rethrown as `Failed to run full
\* preprocessing pipeline: ...`.  The final data are written to
\* processed_data.json of the output directory; a failed write is passed over.
callFullPreprocess(d, p, writeOk) ==
    LET config == configOf(p.workflow, p.pipeline_config)
        run == runSteps(config, d.rows, p.output_dir)
        finalDataPath == finalDataPathOf(p.output_dir)
        failed == [ op |-> "full_preprocess", status |-> "error",
                    pipelineSteps |-> <<>>, stepResults |-> <<>>, currentData |-> <<>>,
                    originalRows |-> 0, finalRows |-> 0, stepsCompleted |-> 0,
                    totalSteps |-> 0, warnings |-> <<>>, generatedFiles |-> <<>>,
                    written |-> {} ]
    IN  IF d.kind = "null" THEN failed
        ELSE IF d.kind # "array"
        THEN [ failed EXCEPT !.written = IF writeOk THEN { finalDataPath } ELSE {} ]
        ELSE [ op |-> "full_preprocess", status |-> "result",
               pipelineSteps |-> run.pipelineSteps,
               stepResults |-> run.stepResults,
               currentData |-> run.currentData,
               originalRows |-> Len(d.rows),
               finalRows |-> Len(run.currentData),
               stepsCompleted |-> run.stepCount,
               totalSteps |-> run.stepCount,
               warnings |-> IF writeOk
                            THEN Append(run.warnings,
                                        Warning("Final data saved to", <<finalDataPath>>))
                            ELSE run.warnings,
               generatedFiles |-> IF writeOk
                                  THEN Append(run.generatedFiles, finalDataPath)
                                  ELSE run.generatedFiles,
               written |-> IF writeOk THEN { finalDataPath } ELSE {} ]

\* The files after the call: safeWriteFile(finalDataPath, serializeData(currentData, 'json'))
fullFilesAfter(before, d, res) ==
    [ path \in DOMAIN before |->
        IF path \in res.written
        THEN File(IF d.kind = "array"
                  THEN Array(stringifyRows(res.currentData)) ELSE d)
        ELSE before[path] ]

\* OceanQualityControlTool.call with its paths: output_path is not supplied,
\* or names the input file or another file
QCFileParam(file_path, quality_params, remove_outliers, output_path) ==
    [ tool |-> "OceanQualityControl", file_path |-> file_path,
      quality_params |-> quality_params, remove_outliers |-> remove_outliers,
      output_path |-> output_path ]

qcFilesAfter(before, p, res) ==
    [ path \in DOMAIN before |->
        IF res.status = "result" /\ res.outputPath /\ path = p.output_path
        THEN File(Array(stringifyRows(res.qcResult.data)))
        ELSE before[path] ]

InitFiles ==
    /\ data \in FileContents
    /\ masks = NullDoc
    /\ params \in { [ file_path |-> file_path ] : file_path \in InputPaths }
    /\ result = NoResult
    /\ outputFile = FilesWith(params.file_path, data)
    /\ pc = "ready"

FullPreprocessCall ==
    /\ pc = "ready"
    /\ \E workflow \in Workflows, pipeline_config \in PipelineConfigs, writeOk \in BOOLEAN :
          \E p \in { FullParam(params.file_path, workflow, pipeline_config, "out") } :
          \E res \in { callFullPreprocess(data, p, writeOk) } :
              /\ params' = p
              /\ result' = res
              /\ outputFile' = fullFilesAfter(outputFile, data, res)
    /\ pc' = "done"
    /\ UNCHANGED <<data, masks>>

QualityControlFileCall ==
    /\ pc = "ready"
    /\ \E remove_outliers \in BOOLEAN, output_path \in { "", params.file_path, "out/qc.json" },
          writeOk \in BOOLEAN :
          \E p \in { QCFileParam(params.file_path, NoQualityParams, remove_outliers, output_path) } :
          \E res \in { callQualityControl(data, NoQualityParams, remove_outliers,
                                         output_path # "", writeOk) } :
              /\ params' = p
              /\ result' = res
              /\ outputFile' = qcFilesAfter(outputFile, p, res)
    /\ pc' = "done"
    /\ UNCHANGED <<data, masks>>

NextFiles == FullPreprocessCall \/ QualityControlFileCall

SpecFiles == InitFiles /\ [][NextFiles]_vars

----------------------------------------------------------------------------
(* interpolateMissingValues *)

\* for (let i = idx - 1; i >= 0; i--) if (typeof data[i][col] === 'number') ...
\* the nearest row before (after) the 1-based row idx whose cell is a number,
\* or 0 when there is none
prevNumber(rows, idx, col) ==
    LET before == { i \in 1..(idx - 1) : isNumber(Get(rows[i], col)) }
    IN  IF before = {} THEN 0 ELSE CHOOSE i \in before : \A j \in before : j <= i
nextNumber(rows, idx, col) ==
    LET after == { i \in (idx + 1)..Len(rows) : isNumber(Get(rows[i], col)) }
    IN  IF after = {} THEN 0 ELSE CHOOSE i \in after : \A j \in after : i <= j

\* (prevValue + nextValue) / 2
midpoint(a, b) == IF a = NaN \/ b = NaN THEN NaN ELSE Quotient(a.v + b.v, 2)

interpolateCell(rows, idx, col) ==
    LET val == Get(rows[idx], col)
        prev == prevNumber(rows, idx, col)
        next == nextNumber(rows, idx, col)
    IN  IF ~(val = Null \/ val = Undef \/ val = Str("")) THEN val
        ELSE IF prev # 0 /\ next # 0 THEN midpoint(rows[prev][col], rows[next][col])
        ELSE IF prev # 0 THEN rows[prev][col]
        ELSE IF next # 0 THEN rows[next][col]
        ELSE val

interpolateMissingValues(rows) ==
    LET numericColumns == findNumericColumns(rows)
        filled(idx) == { col \in numericColumns :
                           interpolateCell(rows, idx, col) # Get(rows[idx], col) }
        interpolatedCount ==
            Cardinality({ <<idx, col>> \in (1..Len(rows)) \X numericColumns : col \in filled(idx) })
    IN  [ data |-> [ idx \in 1..Len(rows) |->
                       [ key \in DOMAIN rows[idx] \cup filled(idx) |->
                           IF key \in numericColumns
                           THEN interpolateCell(rows, idx, key)
                           ELSE rows[idx][key] ] ],
          warnings |-> IF interpolatedCount > 0
                       THEN << Warning("Interpolated missing values", <<interpolatedCount>>) >>
                       ELSE <<>> ]

----------------------------------------------------------------------------
(* Properties of mask generation (SpecGenerate) *)

\* The spec's missingness predicate, written out value by value.
MissingValues == { Null, Undef, Str(""), NaN }

TableFields(rows) == UNION { DOMAIN rows[i] : i \in 1..Len(rows) }
MissingInRow(rows, i, f) == Get(rows[i], f) \in MissingValues
MissingInEveryRow(rows, f) == \A i \in 1..Len(rows) : MissingInRow(rows, i, f)
LandTrue(ms, f) == f \in DOMAIN ms.landMask /\ ms.landMask[f]
Min(a, b) == IF a <= b THEN a ELSE b
Abs(a) == IF a < 0 THEN -a ELSE a

GenerateReturned ==
    /\ pc = "done"
    /\ result.op = "generate_masks"
    /\ result.status = "result"
    /\ data.kind = "array"
    /\ Len(data.rows) > 0

\* C1 (as claimed): after generateMasks on a non-empty table, for every field f
\* that occurs in any row of the table, landMask[f] is true exactly when f is
\* missing in every row.
C1_LandMaskEveryField ==
    GenerateReturned =>
        \A f \in TableFields(data.rows) :
            LandTrue(result.masks, f) <=> MissingInEveryRow(data.rows, f)

\* C1, for the fields of the first row only (the keys the code scans): there
\* landMask[f] is true exactly when f is missing in every row.
C1_LandMaskFirstRowFields ==
    GenerateReturned =>
        /\ DOMAIN result.masks.landMask = DOMAIN data.rows[1]
        /\ \A f \in DOMAIN data.rows[1] :
              result.masks.landMask[f] <=> MissingInEveryRow(data.rows, f)

\* The non-land fields of a generated MaskSet, and a row's missing count and
\* ratio over them.
NonLand(ms) == { f \in DOMAIN ms.landMask : ~ms.landMask[f] }
MissingNonLand(rows, i, ms) ==
    Cardinality({ f \in NonLand(ms) : MissingInRow(rows, i, f) })

\* lo <= r <= hi for r = MissingNonLand / |NonLand|, bounds in ten-thousandths
RatioWithin(rows, i, ms, range) ==
    /\ NonLand(ms) # {}
    /\ range[1] * Cardinality(NonLand(ms)) <= 10000 * MissingNonLand(rows, i, ms)
    /\ 10000 * MissingNonLand(rows, i, ms) <= range[2] * Cardinality(NonLand(ms))

\* 0-based indices of the rows whose ratio lies in the range
Qualifying(rows, ms, range) ==
    { i \in 0..(Len(rows) - 1) : RatioWithin(rows, i + 1, ms, range) }

\* cms holds exactly the first n members of the index set Q, in ascending order
FirstOf(cms, Q, n) ==
    /\ Len(cms) = n
    /\ \A k \in 1..Len(cms) :
          /\ cms[k].index \in Q
          /\ Cardinality({ j \in Q : j < cms[k].index }) = k - 1

\* C2 (as claimed): with missing_ratio_range [lo, hi] and mask_count m supplied,
\* the cloud masks are those of the first min(m, q) rows, in row order, among
\* the q rows whose non-land missing ratio lies in [lo, hi]; never more than m.
C2_FirstMinMQ ==
    (GenerateReturned /\ params.mask_params.hasRange /\ params.mask_params.hasCount) =>
        LET Q == Qualifying(data.rows, result.masks, params.mask_params.range)
        IN  /\ FirstOf(result.masks.cloudMasks, Q, Min(params.mask_params.count, Cardinality(Q)))
            /\ Len(result.masks.cloudMasks) <= params.mask_params.count

\* C2, for mask_count m >= 1 (and the program's 360 in place of m = 0).
C2_FirstMinMQ_Positive ==
    (GenerateReturned /\ params.mask_params.hasRange /\ params.mask_params.hasCount) =>
        LET Q == Qualifying(data.rows, result.masks, params.mask_params.range)
            m == IF params.mask_params.count = 0 THEN 360 ELSE params.mask_params.count
        IN  FirstOf(result.masks.cloudMasks, Q, Min(m, Cardinality(Q)))

\* C3 (as claimed): every emitted missingRatio lies in [0, 1] and equals
\* (missing non-land fields of the source row) / (non-land fields).
C3_RatioExact ==
    GenerateReturned =>
        \A k \in 1..Len(result.masks.cloudMasks) :
            LET cm == result.masks.cloudMasks[k]
            IN  /\ 0 <= cm.missingRatio /\ cm.missingRatio <= 10000
                /\ cm.missingRatio * Cardinality(NonLand(result.masks))
                      = 10000 * MissingNonLand(data.rows, cm.index + 1, result.masks)

\* One change to a land field of the table: in one row its value becomes
\* another missing value or the key is dropped; or a field the table does not
\* have yet is added, missing, to every row.
SetField(row, f, v) == [ g \in DOMAIN row \cup {f} |-> IF g = f THEN v ELSE row[g] ]
DropField(row, f) == [ g \in DOMAIN row \ {f} |-> row[g] ]
LandVariants(rows, ms) ==
    { [ rows EXCEPT ![i] = SetField(rows[i], f, v) ] :
        <<i, f, v>> \in { x \in (1..Len(rows)) \X (DOMAIN ms.landMask) \X MissingValues :
                            ms.landMask[x[2]] } }
    \cup
    { [ rows EXCEPT ![i] = DropField(rows[i], f) ] :
        <<i, f>> \in { x \in (1..Len(rows)) \X (DOMAIN ms.landMask) : ms.landMask[x[2]] } }
    \cup
    { [ i \in 1..Len(rows) |-> SetField(rows[i], f, Null) ] :
        f \in AllFields \ TableFields(rows) }

Selection(ms) ==
    [ k \in 1..Len(ms.cloudMasks) |->
        <<ms.cloudMasks[k].index, ms.cloudMasks[k].missingRatio>> ]

\* C3 (amended): every emitted missingRatio lies in [0, 1] and is
\* (missing non-land fields of the source row) / (non-land fields) rounded to
\* four decimal places; land fields count in neither, so changing, dropping or
\* adding an all-missing field changes no emitted ratio and no selected row.
C3_RatioRoundedNonLand ==
    GenerateReturned =>
        /\ \A k \in 1..Len(result.masks.cloudMasks) :
              LET cm == result.masks.cloudMasks[k]
                  total == Cardinality(NonLand(result.masks))
                  missing == MissingNonLand(data.rows, cm.index + 1, result.masks)
              IN  /\ 0 <= cm.missingRatio /\ cm.missingRatio <= 10000
                  /\ total > 0
                  /\ 2 * Abs(10000 * missing - cm.missingRatio * total) <= total
        /\ \A variant \in LandVariants(data.rows, result.masks) :
              LET again == generateMasks(Array(variant), params.mask_params)
              IN  ~again.threw /\ Selection(again.masks) = Selection(result.masks)

\* a mask was emitted for a table that has a land field and a row that misses
\* some but not all of its non-land fields
C3_Witness ==
    /\ GenerateReturned
    /\ \E f \in DOMAIN result.masks.landMask : result.masks.landMask[f]
    /\ \E k \in 1..Len(result.masks.cloudMasks) :
          /\ result.masks.cloudMasks[k].missingRatio > 0
          /\ result.masks.cloudMasks[k].missingRatio < 10000

\* C7 (as claimed): generate_masks on an empty table or on parsed content that
\* is not an array of rows returns an empty MaskSet with a warning and raises
\* no exception out of the tool call.
C7_MalformedOrEmptyWarns ==
    (pc = "done" /\ result.op = "generate_masks"
        /\ (data.kind # "array" \/ Len(data.rows) = 0)) =>
        /\ result.status = "result"
        /\ result.masks = EmptyMaskSet
        /\ Len(result.warnings) >= 1

\* C7, for the empty table alone.
C7_EmptyTableWarns ==
    (pc = "done" /\ result.op = "generate_masks"
        /\ data.kind = "array" /\ Len(data.rows) = 0) =>
        /\ result.status = "result"
        /\ result.masks = EmptyMaskSet
        /\ Len(result.warnings) >= 1

----------------------------------------------------------------------------
(* Properties of mask application (SpecApply) *)

ApplyReturned ==
    /\ pc = "done"
    /\ result.op = "apply_masks"
    /\ result.status = "result"

\* the rows that have a cloud mask of their own: 1-based positions up to
\* min(|Table|, |cloudMasks|), in a mask document with a non-empty cloudMasks
MaskedPositions ==
    IF masks.kind = "object" /\ masks.hasCloud
    THEN 1..Min(Len(data.rows), Len(masks.cloudMasks))
    ELSE {}

CloudTrue(i, f) ==
    /\ masks.cloudMasks[i].kind = "object"
    /\ masks.cloudMasks[i].hasMask
    /\ f \in DOMAIN masks.cloudMasks[i].mask
    /\ masks.cloudMasks[i].mask[f]

\* C4 (as claimed): output row i, for i < |cloudMasks|, is ground-truth row i
\* with every field whose cloud-mask entry or landMask entry is true set to
\* null and every other field unchanged.
C4_CloudOrLandNulled ==
    ApplyReturned =>
        \A i \in MaskedPositions : \A f \in DOMAIN data.rows[i] :
            Get(result.data[i], f) =
                IF CloudTrue(i, f) \/ LandTrue(masks, f) THEN Null ELSE data.rows[i][f]

\* C4, for the cloud mask alone: the fields whose cloud-mask entry is true are
\* null and every other field of the row is unchanged.
C4_CloudNulled ==
    ApplyReturned =>
        \A i \in MaskedPositions : \A f \in DOMAIN data.rows[i] :
            Get(result.data[i], f) = IF CloudTrue(i, f) THEN Null ELSE data.rows[i][f]

\* C5 (as claimed): the masked table has min(|Table|, |cloudMasks|) rows.
C5_RowCountIsMin ==
    (ApplyReturned /\ masks.kind = "object") =>
        Len(result.data) =
            Min(Len(data.rows), IF masks.hasCloud THEN Len(masks.cloudMasks) ELSE 0)

\* C5 (amended): the masked table has as many rows as the input table.
C5_RowCountIsTableLength ==
    ApplyReturned => Len(result.data) = Len(data.rows)

\* masks were applied to a table with more rows than there are cloud masks
C5_Witness ==
    /\ ApplyReturned
    /\ masks.hasCloud
    /\ Len(masks.cloudMasks) >= 1
    /\ Len(data.rows) > Len(masks.cloudMasks)

\* C6: every input row at an index i >= |cloudMasks| is in the output at the
\* same index with the same fields and values.
C6_ExcessRowsPassThrough ==
    ApplyReturned =>
        \A i \in 1..Len(data.rows) :
            (masks.hasCloud /\ Len(masks.cloudMasks) >= 1 /\ i > Len(masks.cloudMasks)) =>
                /\ i <= Len(result.data)
                /\ result.data[i] = data.rows[i]

\* a row beyond the last cloud mask passed through although the first mask, had
\* it been used again, would have changed it
C6_Witness ==
    /\ ApplyReturned
    /\ masks.hasCloud
    /\ Len(masks.cloudMasks) >= 1
    /\ Len(data.rows) > Len(masks.cloudMasks)
    /\ LET i == Len(masks.cloudMasks) + 1
       IN  \E f \in DOMAIN data.rows[i] : CloudTrue(1, f) /\ data.rows[i][f] # Null

\* the mask documents C8 names
MissingOrEmptyMaskSet ==
    \/ masks.kind = "null"
    \/ ~masks.hasCloud
    \/ Len(masks.cloudMasks) = 0
    \/ \E k \in 1..Len(masks.cloudMasks) :
          masks.cloudMasks[k].kind = "object" /\ ~masks.cloudMasks[k].hasMask

\* C8 (as claimed): apply_masks with a missing or empty MaskSet returns the
\* input table unchanged with a warning and raises no exception.
C8_MissingMaskSetPassThrough ==
    (pc = "done" /\ result.op = "apply_masks" /\ MissingOrEmptyMaskSet) =>
        /\ result.status = "result"
        /\ result.data = data.rows
        /\ Len(result.warnings) >= 1

\* C8, for a document that is an object with no or an empty cloudMasks.
C8_NoCloudMasksPassThrough ==
    (pc = "done" /\ result.op = "apply_masks" /\ masks.kind = "object"
        /\ (~masks.hasCloud \/ Len(masks.cloudMasks) = 0)) =>
        /\ result.status = "result"
        /\ result.data = data.rows
        /\ result.masksApplied = 0
        /\ Len(result.warnings) >= 1

\* C9: applying the same MaskSet to the masked table gives the masked table.
C9_ApplyIdempotent ==
    ApplyReturned =>
        LET again == applyMasksToData(Array(result.data), masks)
        IN  ~again.threw /\ again.data = result.data

\* a first application that nulled two fields of one row
C9_Witness ==
    /\ ApplyReturned
    /\ \E i \in MaskedPositions :
          Cardinality({ f \in DOMAIN data.rows[i] :
                          data.rows[i][f] # Null /\ result.data[i][f] = Null }) >= 2

----------------------------------------------------------------------------
(* Properties of training-pair construction (SpecPairs) *)

PairsReturned ==
    /\ pc = "done"
    /\ result.op = "build_pairs"
    /\ result.status = "result"

\* C10: build_pairs returns min(|cloudMasks|, |groundTruth|) pairs; pair k has
\* maskIndex k, ground-truth row k unchanged and the missingRatio of cloud mask
\* k; excess rows and excess masks give no pair.
C10_OnePairPerAppliedMask ==
    PairsReturned =>
        LET count == IF masks.hasCloud THEN Len(masks.cloudMasks) ELSE 0
        IN  /\ Len(result.pairs) = Min(count, Len(data.rows))
            /\ result.pairsGenerated = Len(result.pairs)
            /\ \A k \in 1..Len(result.pairs) :
                  /\ result.pairs[k].maskIndex = k - 1
                  /\ result.pairs[k].groundTruth = data.rows[k]
                  /\ result.pairs[k].missingRatio = masks.cloudMasks[k].missingRatio

\* pairs were built from fewer rows than there are cloud masks
C10_Witness ==
    /\ PairsReturned
    /\ Len(result.pairs) >= 1
    /\ Len(masks.cloudMasks) > Len(data.rows)

\* C11: every pair built by build_pairs has an input row with exactly the
\* fields of its ground-truth row; a field is null in the input when cloud mask
\* k or the land mask marks it, and equals the ground-truth value otherwise.
C11_InputIsMaskedGroundTruth ==
    PairsReturned =>
        \A k \in 1..Len(result.pairs) :
            LET input == result.pairs[k].input
                groundTruth == result.pairs[k].groundTruth
                cloud == masks.cloudMasks[k].mask
            IN  /\ DOMAIN input = DOMAIN groundTruth
                /\ \A f \in DOMAIN groundTruth :
                      IF \/ (f \in DOMAIN cloud /\ cloud[f])
                         \/ (masks.hasLand /\ LandTrue(masks, f))
                      THEN input[f] = Null
                      ELSE input[f] = groundTruth[f]

\* a pair in which the land mask alone nulls one field and another field is kept
C11_Witness ==
    /\ PairsReturned
    /\ \E k \in 1..Len(result.pairs) :
          LET input == result.pairs[k].input
              groundTruth == result.pairs[k].groundTruth
              cloud == masks.cloudMasks[k].mask
          IN  /\ \E f \in DOMAIN groundTruth :
                    /\ masks.hasLand /\ LandTrue(masks, f)
                    /\ ~(f \in DOMAIN cloud /\ cloud[f])
                    /\ groundTruth[f] # Null /\ input[f] = Null
              /\ \E f \in DOMAIN groundTruth :
                    input[f] = groundTruth[f] /\ groundTruth[f] # Null

----------------------------------------------------------------------------
(* Properties of the dataset split (SpecSplit) *)

SplitReturned ==
    /\ pc = "done"
    /\ result.op = "split_dataset"
    /\ result.status = "result"

\* The ratio a caller's split_params stand for: the supplied number, or the
\* default (in hundredths) when the ratio is not supplied.
SuppliedOr(has, ratio, default) == IF has THEN ratio ELSE default

Count(seq, x) == Cardinality({ k \in 1..Len(seq) : seq[k] = x })

\* C12 (as claimed): |train| = floor(N * train_ratio), |val| = floor(N * val_ratio)
\* and |test| = N - |train| - |val| for every supplied ratio, the defaults
\* 0.7 / 0.15 / 0.15 standing in only for a ratio that is not supplied; 100 pairs
\* with the default ratios give 70 / 15 / 15.
C12_SizesFromSuppliedRatios ==
    /\ SplitReturned =>
        LET N == Len(result.splitResult.pairs)
            train_ratio == SuppliedOr(params.hasTrain, params.train_ratio, 70)
            val_ratio == SuppliedOr(params.hasVal, params.val_ratio, 15)
        IN  /\ Len(result.splitResult.train) = (N * train_ratio) \div 100
            /\ Len(result.splitResult.val) = (N * val_ratio) \div 100
            /\ Len(result.splitResult.test) =
                  N - Len(result.splitResult.train) - Len(result.splitResult.val)
    /\ sizeOf(100, trainRatioOf(NoSplitParams)) = 70
    /\ sizeOf(100, valRatioOf(NoSplitParams)) = 15

\* C12, for supplied ratios that are positive with train_ratio + val_ratio <= 1
\* (and for ratios that are not supplied).
C12_SizesForPositiveRatios ==
    SplitReturned =>
        LET N == Len(result.splitResult.pairs)
            train_ratio == SuppliedOr(params.hasTrain, params.train_ratio, 70)
            val_ratio == SuppliedOr(params.hasVal, params.val_ratio, 15)
        IN  (train_ratio > 0 /\ val_ratio > 0 /\ train_ratio + val_ratio <= 100) =>
                /\ Len(result.splitResult.train) = (N * train_ratio) \div 100
                /\ Len(result.splitResult.val) = (N * val_ratio) \div 100
                /\ Len(result.splitResult.test) =
                      N - Len(result.splitResult.train) - Len(result.splitResult.val)

\* Every pair occurs exactly once in train, val and test together, and the
\* caller's pair sequence is what build_pairs built.
ExactCover ==
    LET pairs == buildTrainingPairs(data, masks).pairs
        parts == result.splitResult.train \o result.splitResult.val \o result.splitResult.test
    IN  /\ \A k \in 1..Len(pairs) : Count(parts, pairs[k]) = 1
        /\ \A k \in 1..Len(parts) : Count(pairs, parts[k]) = 1
        /\ Len(parts) = Len(pairs)
        /\ result.splitInfo.trainSamples + result.splitInfo.valSamples
              + result.splitInfo.testSamples = Len(pairs)
        /\ result.splitResult.pairs = pairs

\* C13 (as claimed): with or without shuffle and for any ratios, train, val and
\* test together hold every input pair exactly once, under every outcome of the
\* shuffle, and the caller's pair sequence is unchanged.
C13_ExactCoverAnyRatios ==
    SplitReturned => ExactCover

\* C13, for ratios none of which is negative.
C13_ExactCoverNonNegativeRatios ==
    (SplitReturned /\ params.train_ratio >= 0 /\ params.val_ratio >= 0) => ExactCover

\* The slice pairs[from : to] of the claim: the elements at the 0-based
\* positions from .. to - 1, a negative bound counting from the end and both
\* bounds kept within 0 .. N.
Bound(n, N) == IF n < 0 THEN (IF N + n < 0 THEN 0 ELSE N + n) ELSE Min(n, N)
Part(seq, from, to) ==
    LET lo == Bound(from, Len(seq))
        hi == Bound(to, Len(seq))
    IN  [ k \in 1..(IF hi > lo THEN hi - lo ELSE 0) |-> seq[lo + k] ]

\* C14: with shuffle = false the split is order-preserving: train =
\* pairs[0 : trainSize], val = pairs[trainSize : trainSize + valSize] and test =
\* pairs[trainSize + valSize : N], for the trainSize and valSize the split
\* computes.
C14_UnshuffledSplitKeepsOrder ==
    (SplitReturned /\ params.shuffle = "false") =>
        LET pairs == buildTrainingPairs(data, masks).pairs
            N == Len(pairs)
            trainSize == sizeOf(N, trainRatioOf(params))
            valSize == sizeOf(N, valRatioOf(params))
        IN  /\ result.splitResult.train = Part(pairs, 0, trainSize)
            /\ result.splitResult.val = Part(pairs, trainSize, trainSize + valSize)
            /\ result.splitResult.test = Part(pairs, trainSize + valSize, N)

\* an unshuffled split with three non-empty parts
C14_Witness ==
    /\ SplitReturned
    /\ params.shuffle = "false"
    /\ Len(result.splitResult.train) >= 2
    /\ Len(result.splitResult.val) >= 1
    /\ Len(result.splitResult.test) >= 1

----------------------------------------------------------------------------
(* Properties of pair validation (SpecValidate) *)

ValidateReturned ==
    /\ pc = "done"
    /\ result.op = "validate_pairs"
    /\ result.status = "result"

\* The pair passes: input and groundTruth have the same field keys, and some
\* field is null in input and not null in groundTruth.
Passes(pair) ==
    /\ DOMAIN pair.input = DOMAIN pair.groundTruth
    /\ \E f \in DOMAIN pair.input : pair.input[f] = Null /\ pair.groundTruth[f] # Null

\* the 0-based indices of the pairs a per-pair warning reports as invalid
ReportedInvalid ==
    { result.warnings[k].args[1] :
        k \in { k \in 1..Len(result.warnings) :
                  result.warnings[k].msg \in { "Pair: Key count mismatch",
                                               "Pair: No masked values found" } } }

----------------------------------------------------------------------------
(* Properties of quality control (SpecSeries, SpecQC) *)

QCReturned ==
    /\ pc = "done"
    /\ result.op = "quality_control"
    /\ result.status = "result"

\* seq without the rows at the 0-based positions in dropped, in order
Without(seq, dropped, out) ==
    LET keep == { i \in 1..Len(seq) : (i - 1) \notin dropped }
    IN  /\ Len(out) = Cardinality(keep)
        /\ \A i \in keep : out[Cardinality({ j \in keep : j <= i })] = seq[i]

\* C16: with remove_outliers set the output table is exactly the input rows
\* that were not flagged (by a range check or as a spike), in the original
\* order; without it the output table equals the input table row for row.
C16_RemovalDropsExactlyFlagged ==
    QCReturned =>
        /\ params.remove_outliers =>
              /\ Without(data.rows, result.qcResult.flagged, result.qcResult.data)
              /\ result.passedRows = Len(data.rows) - Cardinality(result.qcResult.flagged)
        /\ ~params.remove_outliers =>
              /\ result.qcResult.data = data.rows
              /\ result.passedRows = Len(data.rows)
        /\ result.failedRows = result.totalRows - result.passedRows

\* removal drops a row that is flagged as a spike and is no temperature
\* outlier, and keeps at least two rows
C16_Witness ==
    /\ QCReturned
    /\ params.remove_outliers
    /\ \E i \in result.qcResult.spikes :
          ~tempOutlier(data.rows[i + 1], params.quality_params)
    /\ Len(result.qcResult.data) >= 2
    /\ Len(result.qcResult.data) < Len(data.rows)

\* The configured range of a parameter: the caller's, or the default.
Configured(range, min, max) == IF range.has THEN <<range.min, range.max>> ELSE <<min, max>>

\* The row's value for the parameter is a number strictly outside [min, max].
StrictlyOutside(row, field, range) ==
    /\ field \in DOMAIN row
    /\ row[field].t = "num"
    /\ (row[field].v < range[1] \/ row[field].v > range[2])

OutlierRows(field, range) ==
    { i \in 0..(Len(data.rows) - 1) : StrictlyOutside(data.rows[i + 1], field, range) }

ReportedCount(n) == IF n = Undef THEN 0 ELSE n.v

\* C17 (as claimed): a row is counted as a temperature (salinity, pressure,
\* oxygen) outlier and flagged exactly when its value for that parameter is a
\* number strictly outside the configured range, zero and negative values
\* included; values on the bounds and missing values are never counted.
C17_OutlierIffStrictlyOutside ==
    QCReturned =>
        LET qp == params.quality_params
            temperature == OutlierRows("temperature", Configured(qp.temp_range, -2, 40))
            salinity == OutlierRows("salinity", Configured(qp.salinity_range, 0, 42))
            pressure == OutlierRows("pressure", Configured(qp.pressure_range, 0, 12000))
            oxygen == IF qp.oxygen_range.has
                      THEN OutlierRows("oxygen", Configured(qp.oxygen_range, 0, 0))
                      ELSE {}
            report == result.qcResult.report
        IN  /\ report.temperatureOutliers = Cardinality(temperature)
            /\ report.salinityOutliers = Cardinality(salinity)
            /\ report.pressureOutliers = Cardinality(pressure)
            /\ ReportedCount(report.oxygenOutliers) = Cardinality(oxygen)
            /\ result.qcResult.flagged \ result.qcResult.spikes
                  = (temperature \cup salinity \cup pressure \cup oxygen) \ result.qcResult.spikes

\* C17, for tables in which no checked value is zero.
C17_OutlierIffStrictlyOutsideNonZero ==
    (QCReturned /\ \A i \in 1..Len(data.rows) : \A f \in DOMAIN data.rows[i] :
                       data.rows[i][f] # Num(0)) =>
        LET qp == params.quality_params
            temperature == OutlierRows("temperature", Configured(qp.temp_range, -2, 40))
            salinity == OutlierRows("salinity", Configured(qp.salinity_range, 0, 42))
            pressure == OutlierRows("pressure", Configured(qp.pressure_range, 0, 12000))
            oxygen == IF qp.oxygen_range.has
                      THEN OutlierRows("oxygen", Configured(qp.oxygen_range, 0, 0))
                      ELSE {}
            report == result.qcResult.report
        IN  /\ report.temperatureOutliers = Cardinality(temperature)
            /\ report.salinityOutliers = Cardinality(salinity)
            /\ report.pressureOutliers = Cardinality(pressure)
            /\ ReportedCount(report.oxygenOutliers) = Cardinality(oxygen)
            /\ result.qcResult.flagged \ result.qcResult.spikes
                  = (temperature \cup salinity \cup pressure \cup oxygen) \ result.qcResult.spikes

\* The spike condition of the claim at 0-based interior row i, for threshold T.
\* With avgNeighbor = (prev + next) / 2, stdWindow is |prev - next| / 2, so
\* stdWindow > 0 and |curr - avgNeighbor| > T * stdWindow read, doubled:
\* prev # next and |2 curr - prev - next| > T * |prev - next|.
SpikeAt(rows, i, T) ==
    LET prev == rows[i].temperature.v
        curr == rows[i + 1].temperature.v
        next == rows[i + 2].temperature.v
    IN  /\ prev # next
        /\ Abs(2 * curr - prev - next) > T * Abs(prev - next)

ClaimedSpikes(T) == { i \in 1..(Len(data.rows) - 2) : SpikeAt(data.rows, i, T) }

\* C18 (as claimed): spike detection flags interior row i, and never the first
\* or last row, exactly when stdWindow > 0 and |row[i] - avgNeighbor| >
\* spike_threshold * stdWindow on the temperature field, spike_threshold being
\* the caller's value and 3 only when none is supplied.
C18_SpikeIffBeyondSuppliedThreshold ==
    (QCReturned /\ params.quality_params.check_spikes # "false") =>
        LET spike_threshold == IF params.quality_params.spike_threshold.has
                               THEN params.quality_params.spike_threshold.v ELSE 3
        IN  /\ result.qcResult.spikes = ClaimedSpikes(spike_threshold)
            /\ result.qcResult.report.spikesDetected = Num(Cardinality(ClaimedSpikes(spike_threshold)))
            /\ ClaimedSpikes(spike_threshold) \subseteq result.qcResult.flagged

\* C18, for a supplied threshold that is not 0 (and for none supplied).
C18_SpikeIffBeyondNonZeroThreshold ==
    (QCReturned /\ params.quality_params.check_spikes # "false"
        /\ params.quality_params.spike_threshold # Threshold(0)) =>
        LET spike_threshold == IF params.quality_params.spike_threshold.has
                               THEN params.quality_params.spike_threshold.v ELSE 3
        IN  /\ result.qcResult.spikes = ClaimedSpikes(spike_threshold)
            /\ result.qcResult.report.spikesDetected = Num(Cardinality(ClaimedSpikes(spike_threshold)))
            /\ ClaimedSpikes(spike_threshold) \subseteq result.qcResult.flagged

IsolatedSpike ==
    [ i \in 1..6 |-> [ temperature |-> IF i = 4 THEN Num(50) ELSE Num(10) ] ]

\* C19 (as claimed): on the temperature series [10, 10, 10, 50, 10, 10] with
\* threshold 3 the spike detector flags index 3 and no other index.
C19_IsolatedSpikeFlagged ==
    (QCReturned /\ data.rows = IsolatedSpike
        /\ params.quality_params.check_spikes # "false"
        /\ params.quality_params.spike_threshold = Threshold(3)) =>
        /\ result.qcResult.spikes = {3}
        /\ result.qcResult.report.spikesDetected = Num(1)

\* C19, what the detector does on that series: it flags no spike at all.
C19_IsolatedSpikeNotFlagged ==
    (QCReturned /\ data.rows = IsolatedSpike
        /\ params.quality_params.check_spikes # "false"
        /\ params.quality_params.spike_threshold = Threshold(3)) =>
        /\ result.qcResult.spikes = {}
        /\ result.qcResult.report.spikesDetected = Num(0)

----------------------------------------------------------------------------
(* Properties of clean (SpecClean) *)

CleanReturned ==
    /\ pc = "done"
    /\ result.op = "preprocess"
    /\ result.status = "result"
    /\ params.operations = <<"clean">>

\* More than half of the row's fields are missing.
MostlyMissing(row) ==
    2 * Cardinality({ f \in DOMAIN row : row[f] \in MissingValues }) > Cardinality(DOMAIN row)

\* The 0-based rows clean drops: the mostly-missing ones, and every later copy
\* of a row that is kept.
DroppedForMissing(rows) == { i \in 0..(Len(rows) - 1) : MostlyMissing(rows[i + 1]) }
DroppedAsDuplicate(rows) ==
    { i \in 0..(Len(rows) - 1) :
        /\ ~MostlyMissing(rows[i + 1])
        /\ \E j \in 1..i : rows[j] = rows[i + 1] }

Removed(k) == Warning("Removed rows with excessive missing values", <<k>>)

\* Scenario: 5 rows of 5 fields, the second with 4 of its 5 fields missing.
ScenarioRow(i) ==
    [ lat |-> Num(i), lon |-> IF i = 2 THEN Null ELSE Num(1),
      sst |-> IF i = 2 THEN Str("") ELSE Num(1), chl |-> IF i = 2 THEN Null ELSE Num(1),
      ice |-> IF i = 2 THEN Null ELSE Num(1) ]
ScenarioD == [ i \in 1..5 |-> ScenarioRow(i) ]

----------------------------------------------------------------------------
(* Properties of numeric-column classification (SpecNormalize) *)

NormalizeReturned ==
    /\ pc = "done"
    /\ result.op = "data_preprocess"
    /\ result.status = "result"
    /\ params.operations = <<"normalize">>

Numbers(rows, f) == { i \in 1..Len(rows) : Get(rows[i], f).t = "num" }
AtLeast80(rows, f) == 5 * Cardinality(Numbers(rows, f)) >= 4 * Len(rows)
Above80(rows, f) == 5 * Cardinality(Numbers(rows, f)) > 4 * Len(rows)
Lowest(rows, f) == CHOOSE i \in Numbers(rows, f) : \A j \in Numbers(rows, f) : rows[i][f].v <= rows[j][f].v
Highest(rows, f) == CHOOSE i \in Numbers(rows, f) : \A j \in Numbers(rows, f) : rows[i][f].v >= rows[j][f].v

\* The outcome of normalize when exactly the fields of F are numeric: the
\* warning counts them, every cell of another field is left as it was, and in
\* a field of F whose numbers differ the lowest becomes 0 and the highest 1.
NormalizedAs(rows, res, F) ==
    /\ res.warnings[1] = IF F = {}
                         THEN Warning("No numeric columns found for normalization", <<>>)
                         ELSE Warning("Normalized numeric columns", <<Cardinality(F)>>)
    /\ Len(res.data) = Len(rows)
    /\ \A i \in 1..Len(rows) : \A f \in DOMAIN rows[i] :
          IF f \notin F THEN res.data[i][f] = rows[i][f]
          ELSE LET lo == rows[Lowest(rows, f)][f]
                   hi == rows[Highest(rows, f)][f]
               IN  lo # hi =>
                     /\ rows[i][f] = lo => res.data[i][f] = Num(0)
                     /\ rows[i][f] = hi => res.data[i][f] = Num(1)

\* C21: a field is numeric, and so is normalized, if and only if at least 80%
\* of its values across the table are numbers; a field with exactly 80%
\* numbers is numeric.
C21_NumericIffAtLeast80 ==
    NormalizeReturned =>
        NormalizedAs(data.rows, result,
                     { f \in TableFields(data.rows) : AtLeast80(data.rows, f) })

\* What the program does instead: a field is numeric if and only if more than
\* 80% of its values are numbers.
C21_NumericIffAbove80 ==
    NormalizeReturned =>
        NormalizedAs(data.rows, result,
                     { f \in TableFields(data.rows) : Above80(data.rows, f) })

----------------------------------------------------------------------------
(* Properties of the filter (SpecFilter) *)

FilterReturned ==
    /\ pc = "done"
    /\ result.op = "filter"
    /\ result.status = "result"

\* The field a predicate reads: the first of its names the row has
FieldOf(row, names) ==
    IF \E k \in 1..Len(names) : names[k] \in DOMAIN row
    THEN row[names[CHOOSE k \in 1..Len(names) :
                     /\ names[k] \in DOMAIN row
                     /\ \A j \in 1..(k - 1) : names[j] \notin DOMAIN row]]
    ELSE Undef

\* The numeric predicates supplied: the names of the field and its bounds
Bounds(lo, hi) == [ lo |-> lo, hi |-> hi ]
BoundsOf(range) == IF range.has THEN Bounds(Num(range.min), Num(range.max)) ELSE Bounds(Undef, Undef)
Predicates(p) ==
    { << <<"depth", "Depth">>, Bounds(p.min_depth, p.max_depth) >>,
      << <<"latitude", "Latitude", "lat">>, BoundsOf(p.latitude_range) >>,
      << <<"longitude", "Longitude", "lon">>, BoundsOf(p.longitude_range) >>,
      << <<"temperature", "Temperature", "temp">>, Bounds(p.min_temperature, p.max_temperature) >>,
      << <<"salinity", "Salinity">>, Bounds(p.min_salinity, p.max_salinity) >> }

Inside(n, b) ==
    /\ b.lo # Undef => n >= b.lo.v
    /\ b.hi # Undef => n <= b.hi.v

\* A row satisfies the predicates on the fields it has: a number is inside
\* the bounds, a date is inside the period, and an absent or missing value
\* satisfies the predicate
Satisfies(row, p) ==
    /\ \A pred \in Predicates(p) :
          LET val == FieldOf(row, pred[1])
          IN  val.t = "num" => Inside(val.v, pred[2])
    /\ LET day == dateOf(FieldOf(row, <<"date", "Date", "datetime", "time">>))
       IN  day # NaN =>
             /\ p.start_date # Undef => day.v >= dateOf(p.start_date).v
             /\ p.end_date # Undef => day.v <= dateOf(p.end_date).v

\* C22: filterData keeps a row if and only if it satisfies every supplied
\* range predicate on the fields it has (a number, zero included, is inside
\* its range; a row whose field is absent or missing is kept), and the output
\* is the input's rows in their order.
C22_KeepsIffEveryPredicateHolds ==
    FilterReturned =>
        result.data = SelectSeq(data.rows, LAMBDA row : Satisfies(row, params.filter_params))

\* What holds of the program: the output is an order-preserving sub-sequence
\* of the input, and a kept row whose field holds a number other than zero has
\* it inside the range.
C22_KeptNonZeroNumbersInside ==
    FilterReturned =>
        /\ \E keep \in SUBSET (1..Len(data.rows)) :
              result.data = [ k \in 1..Cardinality(keep) |->
                                data.rows[CHOOSE i \in keep :
                                            Cardinality({ j \in keep : j <= i }) = k] ]
        /\ \A k \in 1..Len(result.data) : \A pred \in Predicates(params.filter_params) :
              LET val == FieldOf(result.data[k], pred[1])
              IN  (val.t = "num" /\ val.v # 0) => Inside(val.v, pred[2])

----------------------------------------------------------------------------
(* Properties of input validation (SpecRequest) *)

MissingRequired(req) ==
    \/ /\ req.tool = "OceanMaskProcess"
       /\ req.operation \in { "apply_masks", "analyze_masks" }
       /\ req.mask_file_path = "absent"
    \/ req.tool = "OceanDataFilter" /\ ~req.filter_params

Invalid(file, req) ==
    \/ ~file.exists
    \/ file.ext \notin DATA_EXTENSIONS
    \/ file.large
    \/ MissingRequired(req)

RejectedByValidateInput ==
    /\ pc = "rejected"
    /\ ~result.validation.result
    /\ result.validation.message # ""

\* C23: for every tool, a request with a non-existent input file, an
\* extension outside the whitelist, a file above the size ceiling or a missing
\* required parameter is rejected by validateInput, with a message, and never
\* reaches call.
C23_InvalidRequestRejected ==
    (pc # "ready" /\ Invalid(data, params)) => RejectedByValidateInput

\* What holds of the program: every tool rejects a non-existent input file and
\* a missing required parameter, and the quality-control, filter and two
\* preprocess tools reject all four.
C23_InvalidRequestRejectedWhereChecked ==
    (pc # "ready" /\ Invalid(data, params)) =>
        \/ RejectedByValidateInput
        \/ /\ params.tool \in { "OceanMaskProcess", "OceanTrainingData", "OceanFullPreprocess" }
           /\ data.exists
           /\ ~MissingRequired(params)
           /\ params.tool = "OceanMaskProcess" => data.ext \in DATA_EXTENSIONS

----------------------------------------------------------------------------
(* Properties of executePythonProcessor (SpecPython) *)

Started == pc # "ready"
Settled == Started /\ result.promise.state # "pending"

\* Everything the subprocess writes to stdout and stderr: what has been
\* delivered and what is yet to come
WrittenOut == result.stdout \o concat(data.out)
WrittenErr == result.stderr \o concat(data.err)

\* The outcome the exit of the subprocess calls for
Outcome ==
    IF data.spawnFails THEN [ state |-> "rejected", value |-> StartError ]
    ELSE IF data.code # Num(0)
    THEN [ state |-> "rejected", value |-> ExitError(data.code, WrittenErr) ]
    ELSE IF parseJSON(WrittenOut).ok
    THEN [ state |-> "resolved", value |-> parseJSON(WrittenOut).value ]
    ELSE [ state |-> "rejected", value |-> ParseError(WrittenOut) ]

SettledAfterExit ==
    /\ Started => result.spawns = 1
    /\ Settled => pc \in { "errored", "closed" }
    /\ pc = "closed" => Settled
    /\ Settled => result.promise = Outcome

SettledOnce ==
    Settled => result'.promise = result.promise

\* C24: the promise settles once, and only after the subprocess has closed or
\* failed to start, whatever the order of the stdout and stderr chunks: it
\* resolves with the parsed output iff the exit code is 0 and the whole of
\* stdout parses as JSON, and otherwise rejects with one error (the exit code
\* and the captured stderr, the unparseable stdout, or the failure to start);
\* no partial stdout is surfaced and the process is spawned once.
C24_SettlesOnceAfterExit ==
    [](SettledAfterExit) /\ [][SettledOnce]_vars

\* a run in which both streams deliver, stdout in two chunks that parse only
\* together, and the promise resolves with the whole
C24_Witness ==
    /\ pc = "closed"
    /\ result.stdout = <<"1", "1">>
    /\ result.stderr # <<>>
    /\ result.promise = [ state |-> "resolved", value |-> Num(11) ]

----------------------------------------------------------------------------
(* Properties of the files of a call (SpecFiles) *)

FilesBefore == FilesWith(params.file_path, data)
Changed == { path \in DOMAIN outputFile : outputFile[path] # FilesBefore[path] }

\* The paths a request allows the call to write: output_path, or the files of
\* output_dir
Writable ==
    IF params.tool = "OceanQualityControl" THEN { params.output_path } \ { "" }
    ELSE { "out/processed_data.json", "out/masks.json" }

C25_InputFileChangedOnlyAsOutput ==
    pc = "done" =>
        /\ params.file_path \in Changed => params.file_path \in Writable
        /\ Changed \subseteq Writable


CallReturned == pc = "done" /\ result.status = "result"

\* The paths the result reports: generatedFiles, or outputPath
ReportedPaths ==
    IF params.tool = "OceanQualityControl"
    THEN (IF result.outputPath THEN { params.output_path } ELSE {})
    ELSE { result.generatedFiles[k] : k \in 1..Len(result.generatedFiles) }

\* The writes the call made and the ones among them that succeeded
AttemptedWrites ==
    IF params.tool = "OceanQualityControl" THEN { params.output_path } \ { "" }
    ELSE { finalDataPathOf(params.output_dir) }
SucceededWrites ==
    IF params.tool = "OceanQualityControl"
    THEN (IF result.outputPath THEN { params.output_path } ELSE {})
    ELSE result.written

WarnsOfFailedWrite ==
    \E k \in 1..Len(result.warnings) : result.warnings[k].msg = "Failed to write output file"

\* C26: every path a result reports in generatedFiles (or outputPath) names a
\* file written successfully during the call, a write that failed or was
\* never attempted is not listed, and every failed write is reported in the
\* warnings.
C26_ReportedFilesWereWritten ==
    CallReturned =>
        /\ \A path \in ReportedPaths :
              /\ path \in AttemptedWrites
              /\ outputFile[path].written
        /\ ReportedPaths = SucceededWrites
        /\ AttemptedWrites # SucceededWrites => WarnsOfFailedWrite

\* What holds of the program: the path of the output data is reported exactly
\* when its write succeeded, and the quality-control tool warns of a failed
\* write.
C26_OutputDataReportedIffWritten ==
    CallReturned =>
        /\ \A path \in AttemptedWrites : path \in ReportedPaths <=> path \in SucceededWrites
        /\ \A path \in SucceededWrites : outputFile[path].written
        /\ params.tool = "OceanQualityControl" =>
              /\ ReportedPaths = SucceededWrites
              /\ AttemptedWrites # SucceededWrites => WarnsOfFailedWrite


\* One operation of the basic preprocessing step applied to the rows
Preprocessed(operation, rows) ==
    CASE operation = "clean" -> cleanData(rows).data
      [] operation = "interpolate" -> interpolateMissingValues(rows).data
      [] operation = "normalize" -> normalizeData(rows).data
      [] OTHER -> rows

RECURSIVE PreprocessedBy(_, _)
PreprocessedBy(operations, rows) ==
    IF operations = <<>> THEN rows
    ELSE PreprocessedBy(Tail(operations), Preprocessed(Head(operations), rows))

\* The configured steps applied in the order preprocess, filter, quality
\* control, each to the output of the one before; the configurations supply no
\* filter parameter, and the mask and training steps leave the rows as they
\* are.
PipelineOutput(config, rows) ==
    LET preprocessed ==
            IF config.basic_preprocess = Undef THEN rows
            ELSE PreprocessedBy(orDefault(config.basic_preprocess.operations,
                                          List(<<"clean", "statistics">>)).v, rows)
    IN  IF enabled(config.quality_control)
        THEN performQualityControl(preprocessed, NoQualityParams,
                                   config.quality_control.remove_outliers).data
        ELSE preprocessed

FullReturned == CallReturned /\ params.tool = "OceanFullPreprocess"

EnabledSteps(config) ==
    SelectSeq(<<"basic_preprocess", "filter", "quality_control", "mask_process", "training_data">>,
              LAMBDA step : IF step = "basic_preprocess" THEN config[step] # Undef
                            ELSE enabled(config[step]))

\* C27: the enabled steps run in the order preprocess, filter, QC, masks,
\* training, each on the output of the one before, so the processed data
\* written and finalRows are the configured steps applied to the parsed input.
C27_OutputIsStepsApplied ==
    FullReturned =>
        LET config == configOf(params.workflow, params.pipeline_config)
            expected == PipelineOutput(config, data.rows)
        IN  /\ result.pipelineSteps = EnabledSteps(config)
            /\ result.finalRows = Len(expected)
            /\ result.currentData = expected
            /\ finalDataPathOf(params.output_dir) \in result.written =>
                  outputFile[finalDataPathOf(params.output_dir)]
                      = File(Array(stringifyRows(expected)))

\* What holds of the program: the enabled steps are named in the fixed order,
\* and the data written and finalRows are the parsed input as it was read.
C27_OutputIsParsedInput ==
    FullReturned =>
        /\ result.pipelineSteps = EnabledSteps(configOf(params.workflow, params.pipeline_config))
        /\ result.finalRows = Len(data.rows)
        /\ result.currentData = data.rows
        /\ finalDataPathOf(params.output_dir) \in result.written =>
              outputFile[finalDataPathOf(params.output_dir)]
                  = File(Array(stringifyRows(data.rows)))


----------------------------------------------------------------------------
(* Properties of fill_missing (SpecFill) *)

FillReturned == pc = "done" /\ result.op = "data_preprocess" /\ result.status = "result"

\* The rows of the maximal run of consecutive missing values of column col
\* that holds row i
RunOf(rows, i, col) ==
    { j \in 1..Len(rows) :
        \A k \in (IF j < i THEN j ELSE i)..(IF j < i THEN i ELSE j) :
            isMissing(Get(rows[k], col)) }

\* What the method makes of a missing value when no limit is set
MethodValue(rows, i, col, method) == fillValueOf(rows, i, col, method, Undef)

Filled(i, col) ==
    ~isMissing(Get(result.data[i], col))

MissingCells == { i \in 1..Len(data.rows) : isMissing(Get(data.rows[i], "sst")) }

LimitOf(fill_params) == maxGapOf(fill_params)

\* C28: with max_gap = g, fill_missing never fills a value lying in a run of
\* more than g consecutive missing values, for every method and wherever the
\* run lies; values in runs of at most g are filled according to the method.
C28_FillsOnlyRunsWithinMaxGap ==
    (FillReturned /\ LimitOf(params.fill_params) # Undef) =>
        \A i \in MissingCells :
            IF Cardinality(RunOf(data.rows, i, "sst")) > LimitOf(params.fill_params).v
            THEN Get(result.data[i], "sst") = Get(data.rows[i], "sst")
            ELSE MethodValue(data.rows, i, "sst", methodOf(params.fill_params)) # Null
                 => Get(result.data[i], "sst")
                      = MethodValue(data.rows, i, "sst", methodOf(params.fill_params))

\* A run the program leaves alone: one of more than max_gap values, max_gap
\* not 0, with a valid number on both sides, under an interpolating method
LeftAlone(rows, i, fill_params) ==
    /\ methodOf(fill_params) \in {"linear", "nearest", "cubic"}
    /\ gapTooLarge(maxGapOf(fill_params), prevIdxOf(rows, i, "sst"), nextIdxOf(rows, i, "sst"))

\* What holds of the program: in a numeric column a missing value stays as it
\* is exactly in the runs LeftAlone describes (and where the method finds no
\* value); every other missing value gets the value of the method, whatever
\* max_gap is. A column that is not numeric is returned as it is.
C28_LimitOnlyInsideInterpolation ==
    FillReturned =>
        \A i \in MissingCells :
            IF "sst" \in findNumericColumns(data.rows)
               /\ ~LeftAlone(data.rows, i, params.fill_params)
               /\ MethodValue(data.rows, i, "sst", methodOf(params.fill_params)) # Null
            THEN Get(result.data[i], "sst")
                   = MethodValue(data.rows, i, "sst", methodOf(params.fill_params))
            ELSE Get(result.data[i], "sst") = Get(data.rows[i], "sst")

\* The limit does act where the program applies it
C28_InteriorRunLeftAlone ==
    /\ FillReturned
    /\ \E i \in MissingCells :
          /\ LeftAlone(data.rows, i, params.fill_params)
          /\ ~Filled(i, "sst")


----------------------------------------------------------------------------
(* Cloud masks and land fields (SpecGenerate) *)

MaskTrue(cm, f) == f \in DOMAIN cm.mask /\ cm.mask[f]

\* C29: in every MaskSet produced by generateMasks each cloud mask has an entry
\* for every field of the table, true exactly when the field is missing in the
\* mask's source row, and so every field the land mask marks is marked by
\* every cloud mask.
C29_CloudMaskCoversEveryField ==
    GenerateReturned =>
        \A k \in 1..Len(result.masks.cloudMasks) :
            LET cm == result.masks.cloudMasks[k]
            IN  /\ DOMAIN cm.mask = TableFields(data.rows)
                /\ \A f \in TableFields(data.rows) :
                      MaskTrue(cm, f) <=> MissingInRow(data.rows, cm.index + 1, f)
                /\ \A f \in TableFields(data.rows) :
                      MissingInEveryRow(data.rows, f) => MaskTrue(cm, f)

\* What holds of the program: each cloud mask has an entry for every field of
\* the first row, true exactly when the field is missing in the source row,
\* and every field the land mask marks is marked by every cloud mask.
C29_CloudMaskCoversFirstRowFields ==
    GenerateReturned =>
        \A k \in 1..Len(result.masks.cloudMasks) :
            LET cm == result.masks.cloudMasks[k]
            IN  /\ DOMAIN cm.mask = DOMAIN data.rows[1]
                /\ \A f \in DOMAIN data.rows[1] :
                      cm.mask[f] <=> MissingInRow(data.rows, cm.index + 1, f)
                /\ \A f \in DOMAIN result.masks.landMask :
                      result.masks.landMask[f] => MaskTrue(cm, f)

\* A cloud mask was generated from a table that has a land field
C29_LandFieldMarked ==
    /\ GenerateReturned
    /\ Len(result.masks.cloudMasks) > 0
    /\ \E f \in DOMAIN result.masks.landMask : result.masks.landMask[f]


----------------------------------------------------------------------------
(* Row counts of a quality-control result (SpecQC, SpecSeries) *)

\* The rows the checks flag: range outliers and spikes
FlaggedRows == Cardinality(result.qcResult.flagged)

\* C30: in every quality-control result passedRows + failedRows = totalRows,
\* and failedRows is the number of rows flagged as range outliers or spikes,
\* whether or not remove_outliers is set.
C30_FailedRowsAreFlaggedRows ==
    QCReturned =>
        /\ result.passedRows + result.failedRows = result.totalRows
        /\ result.failedRows = FlaggedRows

\* What holds of the program: the counts add up, and failedRows is the number
\* of rows removed: the flagged rows when remove_outliers is set, and 0 when
\* it is not.
C30_FailedRowsAreRemovedRows ==
    QCReturned =>
        /\ result.passedRows + result.failedRows = result.totalRows
        /\ result.totalRows = Len(data.rows)
        /\ result.failedRows = IF params.remove_outliers THEN FlaggedRows ELSE 0

\* Rows were flagged and removed
C30_FlaggedRowsRemoved ==
    QCReturned /\ params.remove_outliers /\ FlaggedRows > 0 /\ result.failedRows > 0

====
